---- MODULE Spec2Model ----
(***************************************************************************)
(* Policy-gated execution core of the Chimera facilitator                  *)
(* (src/src/services/facilitator.js).                                      *)
(*                                                                         *)
(* One frame per in-flight executeUserIntent call.  A frame advances from  *)
(* one `await` of the source to the next: everything the JavaScript        *)
(* runtime executes between two awaits is one atomic action, and the       *)
(* continuations of different calls interleave freely at the awaits.       *)
(* The module-level maps userTracking and usedNonces are shared by all     *)
(* frames.  Date.now() is the variable now (milliseconds).                 *)
(***************************************************************************)
EXTENDS Integers, Sequences, FiniteSets, TLC

VARIABLES usedNonces, userTracking, now, calls,   \* the facilitator
          loop, stream, events, auditCalls,       \* the audit loop
          gate,                                   \* the payment gate
          quotes,                                 \* estimateGas results
          cache, stats, got                       \* the cache service

facilitatorVars == <<usedNonces, userTracking, now, calls>>
auditVars == <<loop, stream, events, auditCalls>>
helperVars == <<quotes, cache, stats, got>>
vars == <<facilitatorVars, auditVars, gate, helperVars>>

(***************************************************************************)
(* Bounds of the model.                                                    *)
(***************************************************************************)
MaxCalls == 2         \* executeUserIntent calls made, all may be in flight at once
MaxNonce == 1         \* intents carry a nonce in 0..MaxNonce
MaxTicks == 2         \* the clock advances at most MaxTicks seconds
StartTime == 1000000000 \* Date.now() when the model starts (ms)

(***************************************************************************)
(* POLICY (facilitator.js:11-32).  Spend amounts are decimal numbers of    *)
(* BNB, counted in units of 0.00001 BNB: one digit below the four decimals *)
(* getRemainingSpend reports.                                              *)
(***************************************************************************)
MaxSpendPerHour == 100000
MaxSpendPerDay == 500000
MaxTxPerMinute == 5
MaxTxPerHour == 30
MaxTxPerDay == 100
MinAuditScore == 80
RequireAudit == TRUE
AllowedIntentTypes == {"deploy_contract", "transfer", "call_contract", "swap"}
AllowedContracts == {}
DeniedContracts == {}

MinuteMs == 60 * 1000
HourMs == 60 * 60 * 1000
DayMs == 24 * 60 * 60 * 1000

(***************************************************************************)
(* Values.                                                                 *)
(***************************************************************************)
NULL == "null"                 \* a missing userAddress
Undefined == 0 - 1             \* a missing numeric field (data.auditScore)
Truthy(n) == n /= Undefined /\ n /= 0   \* JavaScript truthiness of a number

AutoMarkers == {"auto-deploy", "auto-transfer", "auto-call"}

\* An address used as a key the way it is spelled.
KeepCase(a) == a

\* String.prototype.toLowerCase on the addresses of the model.
ToLowerCase(a) ==
  CASE a = "0xAB" -> "0xab"
    [] a = "0xCD" -> "0xcd"
    [] OTHER -> a

\* nonce.toString()
NonceKey(n) == ToString(n)

\* ethers.keccak256(ethers.toUtf8Bytes(JSON.stringify(data)))
Keccak(data) == <<"keccak256", data>>

(***************************************************************************)
(* Signature Verifier (facilitator.js:228-264).                            *)
(*                                                                         *)
(* A well-formed signature is the pair of the key that produced it and the *)
(* typed-data message it was produced over.  ethers.verifyTypedData        *)
(* recovers the signer's address when the message is the signed one, some  *)
(* unrelated address when it is not, and throws on malformed bytes.        *)
(***************************************************************************)
WellFormedRaw == "0xsig65"
MalformedRaw == "0xbad"
UnrelatedAddress == "0x??"

NoMessage == [type |-> "", nonce |-> 0, deadline |-> 0, dataHash |-> <<>>]

SignTypedData(key, message) ==
  [raw |-> WellFormedRaw, signer |-> key, message |-> message]

RawSignature(text) == [raw |-> text, signer |-> NULL, message |-> NoMessage]

IntentMessage(intent) ==
  [type |-> intent.type,
   nonce |-> intent.nonce,
   deadline |-> intent.deadline,
   dataHash |-> IF intent.dataHash /= <<>> THEN intent.dataHash
                ELSE Keccak(intent.data)]

VerifyTypedData(message, signature) ==
  IF signature.raw /= WellFormedRaw
    THEN [threw |-> TRUE, address |-> NULL]
    ELSE [threw |-> FALSE,
          address |-> IF signature.message = message THEN signature.signer
                      ELSE UnrelatedAddress]

\* try { ...; recoveredAddress = verifyTypedData(...); return true }
\* catch { return false }
VerifyIntentSignature(intent, signature) ==
  LET recovered == VerifyTypedData(IntentMessage(intent), signature)
  IN  IF recovered.threw THEN FALSE ELSE TRUE

IsAutoOp(signature) == signature.raw \in AutoMarkers

(***************************************************************************)
(* Policy Ledger reads (facilitator.js:383-394).                           *)
(***************************************************************************)
\* The transaction list getUserTracking(address) returns.
Transactions(tracking, address) ==
  IF address = NULL \/ ToLowerCase(address) \notin DOMAIN tracking THEN <<>>
  ELSE tracking[ToLowerCase(address)].transactions

\* The map after getUserTracking(address): the entry is created on first use.
\* Its firstSeen stamp is written once and never read; the entry of the model
\* keeps the transaction list.
GetUserTracking(tracking, address, nowMs) ==
  IF address = NULL \/ ToLowerCase(address) \in DOMAIN tracking THEN tracking
  ELSE [k \in DOMAIN tracking \cup {ToLowerCase(address)} |->
          IF k \in DOMAIN tracking THEN tracking[k]
          ELSE [transactions |-> <<>>]]

\* CountWithin with the age taken in seconds and compared with a window in
\* milliseconds.
CountWithinSeconds(txs, nowMs, window) ==
  Cardinality({i \in 1..Len(txs) : (nowMs - txs[i].timestamp) \div 1000 < window})

\* transactions.filter(t => Date.now() - t.timestamp < window).length
CountWithin(txs, nowMs, window) ==
  Cardinality({i \in 1..Len(txs) : nowMs - txs[i].timestamp < window})

RECURSIVE SumSpent(_, _, _, _, _)
\* transactions.filter(...).reduce((sum, t) => sum + parseFloat(t.gasSpent), 0)
\* over the records lo..hi of the list, summed by halves.
SumSpent(txs, nowMs, window, lo, hi) ==
  IF lo > hi THEN 0
  ELSE IF lo = hi
    THEN (IF nowMs - txs[lo].timestamp < window THEN txs[lo].gasSpent ELSE 0)
  ELSE SumSpent(txs, nowMs, window, lo, (lo + hi) \div 2)
       + SumSpent(txs, nowMs, window, (lo + hi) \div 2 + 1, hi)

SpentWithin(txs, nowMs, window) == SumSpent(txs, nowMs, window, 1, Len(txs))

(***************************************************************************)
(* Policy Engine (facilitator.js:272-364): the violations, in the order    *)
(* the rules push them.                                                    *)
(***************************************************************************)
DeadlineMsg == "Intent deadline expired"
ReplayMsg == "Nonce already used (replay attack prevented)"
TypeMsg(type) == "Intent type \"" \o type \o "\" is not allowed"
RateMinuteMsg == "Rate limit exceeded: max " \o ToString(MaxTxPerMinute) \o " tx/minute"
RateHourMsg == "Rate limit exceeded: max " \o ToString(MaxTxPerHour) \o " tx/hour"
RateDayMsg == "Rate limit exceeded: max " \o ToString(MaxTxPerDay) \o " tx/day"
SpendHourMsg == "Spend limit exceeded: max 1.0 BNB/hour"
SpendDayMsg == "Spend limit exceeded: max 5.0 BNB/day"
DeniedMsg == "Contract is blacklisted"
NotAllowedMsg == "Contract is not in allowlist"
AuditMsg(score) ==
  "Audit score " \o ToString(score) \o " is below minimum " \o ToString(MinAuditScore)

When(cond, msg) == IF cond THEN <<msg>> ELSE <<>>

\* Math.floor(Date.now() / 1000)
NowSeconds(nowMs) == nowMs \div 1000

DeadlineRule(intent, nowMs) ==
  When(Truthy(intent.deadline) /\ intent.deadline < NowSeconds(nowMs), DeadlineMsg)

ReplayRule(intent, nonces) ==
  When(Truthy(intent.nonce) /\ NonceKey(intent.nonce) \in nonces, ReplayMsg)

TypeRule(intent) ==
  When(intent.type \notin AllowedIntentTypes, TypeMsg(intent.type))

\* RateRules as an else-if chain: only the first exceeded window is reported.
RateRulesFirstOnly(txs, nowMs) ==
  IF CountWithin(txs, nowMs, MinuteMs) >= MaxTxPerMinute THEN <<RateMinuteMsg>>
  ELSE IF CountWithin(txs, nowMs, HourMs) >= MaxTxPerHour THEN <<RateHourMsg>>
  ELSE When(CountWithin(txs, nowMs, DayMs) >= MaxTxPerDay, RateDayMsg)

RateRules(txs, nowMs) ==
  When(CountWithin(txs, nowMs, MinuteMs) >= MaxTxPerMinute, RateMinuteMsg)
  \o When(CountWithin(txs, nowMs, HourMs) >= MaxTxPerHour, RateHourMsg)
  \o When(CountWithin(txs, nowMs, DayMs) >= MaxTxPerDay, RateDayMsg)

\* The spend rules rejecting only spend above the caps.
SpendRulesAboveOnly(txs, nowMs) ==
  When(SpentWithin(txs, nowMs, HourMs) > MaxSpendPerHour, SpendHourMsg)
  \o When(SpentWithin(txs, nowMs, DayMs) > MaxSpendPerDay, SpendDayMsg)

SpendRules(txs, nowMs) ==
  When(SpentWithin(txs, nowMs, HourMs) >= MaxSpendPerHour, SpendHourMsg)
  \o When(SpentWithin(txs, nowMs, DayMs) >= MaxSpendPerDay, SpendDayMsg)

ContractRule(intent) ==
  IF intent.type = "call_contract" /\ intent.data.contract /= ""
    THEN When(ToLowerCase(intent.data.contract)
                \in {ToLowerCase(c) : c \in DeniedContracts}, DeniedMsg)
         \o When(AllowedContracts /= {}
                 /\ ToLowerCase(intent.data.contract)
                      \notin {ToLowerCase(c) : c \in AllowedContracts},
                 NotAllowedMsg)
    ELSE <<>>

AuditRule(intent) ==
  IF intent.type = "deploy_contract" /\ RequireAudit
    THEN When(Truthy(intent.data.auditScore)
              /\ intent.data.auditScore < MinAuditScore,
              AuditMsg(intent.data.auditScore))
    ELSE <<>>

\* validatePolicy returning at the first violation it finds.
ValidatePolicyFirstOnly(intent, userAddress, tracking, nonces, nowMs) ==
  LET all == DeadlineRule(intent, nowMs)
             \o ReplayRule(intent, nonces)
             \o TypeRule(intent)
             \o (IF userAddress /= NULL
                   THEN RateRules(Transactions(tracking, userAddress), nowMs)
                        \o SpendRules(Transactions(tracking, userAddress), nowMs)
                   ELSE <<>>)
             \o ContractRule(intent)
             \o AuditRule(intent)
  IN  IF all = <<>> THEN <<>> ELSE <<all[1]>>

ValidatePolicy(intent, userAddress, tracking, nonces, nowMs) ==
  DeadlineRule(intent, nowMs)
  \o ReplayRule(intent, nonces)
  \o TypeRule(intent)
  \o (IF userAddress /= NULL
        THEN RateRules(Transactions(tracking, userAddress), nowMs)
             \o SpendRules(Transactions(tracking, userAddress), nowMs)
        ELSE <<>>)
  \o ContractRule(intent)
  \o AuditRule(intent)

RECURSIVE Join(_)
\* violations.join('; ')
Join(strings) ==
  IF strings = <<>> THEN ""
  ELSE IF Len(strings) = 1 THEN strings[1]
  ELSE strings[1] \o "; " \o Join(Tail(strings))

\* throw new Error(`Policy violation: ${violations.join('; ')}`)
PolicyViolation(violations) == "Policy violation: " \o Join(violations)

\* trackNonce keeping the latest nonce alone.
TrackNonceLatestOnly(nonces, nonce) ==
  IF Truthy(nonce) THEN {NonceKey(nonce)} ELSE nonces

\* trackNonce (facilitator.js:370-376)
\* executeUserIntent without the call of trackNonce.
TrackNonceSkipped(nonces, nonce) == nonces

TrackNonce(nonces, nonce) ==
  IF Truthy(nonce) THEN nonces \cup {NonceKey(nonce)} ELSE nonces

(***************************************************************************)
(* Policy Ledger writes and reports (facilitator.js:402-481).              *)
(***************************************************************************)
HistoryCap == 1000

\* userInfo.transactions.slice(0, HistoryCap)
FirstRecords(txs) ==
  IF Len(txs) > HistoryCap THEN SubSeq(txs, 1, HistoryCap) ELSE txs

\* userInfo.transactions.slice(-HistoryCap)
LastRecords(txs) ==
  IF Len(txs) > HistoryCap THEN SubSeq(txs, Len(txs) - HistoryCap + 1, Len(txs))
  ELSE txs

\* recordTransaction writing a record without the cost of the receipt.
RecordTransactionFree(tracking, userAddress, intent, gasSpent, nowMs) ==
  IF userAddress = NULL THEN tracking
  ELSE LET created == GetUserTracking(tracking, userAddress, nowMs)
           key == ToLowerCase(userAddress)
           record == [timestamp |-> nowMs, type |-> intent.type, gasSpent |-> 0]
       IN  [created EXCEPT ![key].transactions = LastRecords(Append(@, record))]

\* recordTransaction filing an execution without userAddress under the signer.
RecordTransactionToSigner(tracking, userAddress, intent, gasSpent, nowMs) ==
  LET who == IF userAddress = NULL THEN "0xAB" ELSE userAddress
      created == GetUserTracking(tracking, who, nowMs)
      record == [timestamp |-> nowMs, type |-> intent.type, gasSpent |-> gasSpent]
  IN  [created EXCEPT ![ToLowerCase(who)].transactions =
                        LastRecords(Append(@, record))]

\* recordTransaction(userAddress, intent, receipt).  The txHash of a record
\* is an opaque chain value no rule reads; the record keeps the other fields.
RecordTransaction(tracking, userAddress, intent, gasSpent, nowMs) ==
  IF userAddress = NULL THEN tracking
  ELSE LET created == GetUserTracking(tracking, userAddress, nowMs)
           key == ToLowerCase(userAddress)
           record == [timestamp |-> nowMs, type |-> intent.type,
                      gasSpent |-> gasSpent]
       IN  [created EXCEPT ![key].transactions = LastRecords(Append(@, record))]

\* One unit of the last digit Number.prototype.toFixed(4) keeps.
ReportUnit == 10

\* x.toFixed(4): x rounded to the nearest multiple of 0.0001, halves away
\* from zero.
ToFixed4(x) ==
  IF x >= 0 THEN ((x + ReportUnit \div 2) \div ReportUnit) * ReportUnit
  ELSE 0 - (((0 - x) + ReportUnit \div 2) \div ReportUnit) * ReportUnit

GetRemainingSpend(tracking, userAddress, nowMs) ==
  IF userAddress = NULL
    THEN [hourly |-> MaxSpendPerHour, daily |-> MaxSpendPerDay]
    ELSE LET txs == Transactions(tracking, userAddress)
         IN  [hourly |-> ToFixed4(MaxSpendPerHour - SpentWithin(txs, nowMs, HourMs)),
              daily |-> ToFixed4(MaxSpendPerDay - SpentWithin(txs, nowMs, DayMs))]

\* getRemainingTx over the ledger as it was before the last record.
GetRemainingTxStale(tracking, userAddress, nowMs) ==
  IF userAddress = NULL
    THEN [perMinute |-> MaxTxPerMinute, perHour |-> MaxTxPerHour,
          perDay |-> MaxTxPerDay]
    ELSE LET all == Transactions(tracking, userAddress)
             txs == SubSeq(all, 1, Len(all) - 1)
         IN  [perMinute |-> MaxTxPerMinute - CountWithin(txs, nowMs, MinuteMs),
              perHour |-> MaxTxPerHour - CountWithin(txs, nowMs, HourMs),
              perDay |-> MaxTxPerDay - CountWithin(txs, nowMs, DayMs)]

GetRemainingTx(tracking, userAddress, nowMs) ==
  IF userAddress = NULL
    THEN [perMinute |-> MaxTxPerMinute, perHour |-> MaxTxPerHour,
          perDay |-> MaxTxPerDay]
    ELSE LET txs == Transactions(tracking, userAddress)
         IN  [perMinute |-> MaxTxPerMinute - CountWithin(txs, nowMs, MinuteMs),
              perHour |-> MaxTxPerHour - CountWithin(txs, nowMs, HourMs),
              perDay |-> MaxTxPerDay - CountWithin(txs, nowMs, DayMs)]

(***************************************************************************)
(* Execution Dispatcher (facilitator.js:88-105).                           *)
(***************************************************************************)
DispatchAction(type) ==
  CASE type = "deploy_contract" -> "deployContract"
    [] type = "transfer" -> "transferTokens"
    [] type = "call_contract" -> "callContract"
    [] type = "swap" -> "executeSwap"
    [] OTHER -> "none"

DispatchActions == {"deployContract", "transferTokens", "callContract", "executeSwap"}

(***************************************************************************)
(* Frames of executeUserIntent (facilitator.js:66-137).                    *)
(***************************************************************************)
Calls == 1..MaxCalls

NoData == [auditScore |-> Undefined, bytecode |-> "", contract |-> ""]
NoIntent == [type |-> "", nonce |-> 0, deadline |-> 0, dataHash |-> <<>>,
             data |-> NoData]
NoQuota == [hourly |-> 0, daily |-> 0, perMinute |-> 0, perHour |-> 0, perDay |-> 0]

IdleFrame ==
  [pc |-> "idle", origin |-> "", intent |-> NoIntent,
   signature |-> RawSignature(""), userAddress |-> NULL,
   isValid |-> FALSE, action |-> "none", error |-> "", violations |-> <<>>,
   cost |-> 0, policyInfo |-> NoQuota]

\* executeUserIntent without the `if (!isValid) throw`.
SignatureRejectedNever(isAutoOp, isValid) == FALSE

\* if (!isAutoOp) { isValid = await verifyIntentSignature(...);
\*                  if (!isValid) throw ... }
SignatureRejected(isAutoOp, isValid) == ~isAutoOp /\ ~isValid

Fail(frame, message) == [frame EXCEPT !.pc = "failed", !.error = message]

\* catch (error) { throw new Error(`Transaction execution failed: ...`) }:
\* the message of the error a failed call throws to its caller.
ErrorMessage(frame) ==
  "Transaction execution failed: "
    \o (IF frame.violations /= <<>> THEN PolicyViolation(frame.violations)
        ELSE frame.error)

\* validatePolicy logging its violations instead of throwing them.
ValidateLogOnly(c, frame) ==
  LET violations == ValidatePolicy(frame.intent, frame.userAddress,
                                   userTracking, usedNonces, now)
  IN  /\ userTracking' = GetUserTracking(userTracking, frame.userAddress, now)
      /\ calls' = [calls EXCEPT ![c] =
                     [frame EXCEPT !.pc = "awaitValidate",
                                   !.violations = violations]]
      /\ UNCHANGED <<usedNonces, now, auditVars, gate, helperVars>>

\* validatePolicy committing the nonce it has just checked.
ValidateBurning(c, frame) ==
  LET violations == ValidatePolicy(frame.intent, frame.userAddress,
                                   userTracking, usedNonces, now)
  IN  /\ userTracking' = GetUserTracking(userTracking, frame.userAddress, now)
      /\ usedNonces' = TrackNonce(usedNonces, frame.intent.nonce)
      /\ calls' = [calls EXCEPT ![c] =
                     IF violations = <<>>
                       THEN [frame EXCEPT !.pc = "awaitValidate"]
                       ELSE [Fail(frame, "Policy violation")
                               EXCEPT !.violations = violations]]
      /\ UNCHANGED <<now, auditVars, gate, helperVars>>

\* await this.validatePolicy(intent, userAddress): the body runs to its end
\* in the caller's turn; the frame then waits for the await to resume it.
Validate(c, frame) ==
  LET violations == ValidatePolicy(frame.intent, frame.userAddress,
                                   userTracking, usedNonces, now)
  IN  /\ userTracking' = GetUserTracking(userTracking, frame.userAddress, now)
      /\ calls' = [calls EXCEPT ![c] =
                     IF violations = <<>>
                       THEN [frame EXCEPT !.pc = "awaitValidate"]
                       ELSE [Fail(frame, "Policy violation")
                               EXCEPT !.violations = violations]]
      /\ UNCHANGED <<usedNonces, now, auditVars, gate, helperVars>>

\* A caller invokes executeUserIntent(intent, signature, userAddress).  The
\* await of verifyIntentSignature, a function of the call's arguments alone,
\* is folded into this step: nothing another call does can tell the turn
\* before it from the turn after it.
Call(c, req) ==
  /\ calls[c].pc = "idle"
  /\ \A d \in Calls : d < c => calls[d].pc /= "idle"
  /\ LET isAutoOp == IsAutoOp(req.signature)
         isValid == ~isAutoOp /\ VerifyIntentSignature(req.intent, req.signature)
         frame == [IdleFrame EXCEPT !.origin = req.origin,
                                    !.intent = req.intent,
                                    !.signature = req.signature,
                                    !.userAddress = req.userAddress,
                                    !.isValid = isValid]
     IN  IF SignatureRejected(isAutoOp, isValid)
           THEN /\ calls' = [calls EXCEPT ![c] =
                               Fail(frame, "Invalid intent signature")]
                /\ UNCHANGED <<usedNonces, userTracking, now, auditVars, gate, helperVars>>
           ELSE Validate(c, frame)

\* The await of validatePolicy resumes: trackNonce, then the switch starts
\* the dispatch action, whose synchronous prefix runs in the same turn.
AfterValidate(c) ==
  /\ calls[c].pc = "awaitValidate"
  /\ usedNonces' = TrackNonce(usedNonces, calls[c].intent.nonce)
  /\ LET action == DispatchAction(calls[c].intent.type)
     IN  calls' = [calls EXCEPT ![c] =
           IF action = "none"
             THEN Fail(@, "Unknown intent type")
           ELSE IF action = "deployContract" /\ @.intent.data.bytecode = ""
             THEN Fail([@ EXCEPT !.action = action], "Contract bytecode is required")
           ELSE [@ EXCEPT !.pc = "awaitDispatch", !.action = action]]
  /\ UNCHANGED <<userTracking, now, auditVars, gate, helperVars>>

\* The chain client returns the pending transaction: await tx.wait() starts.
TxSent(c) ==
  /\ calls[c].pc = "awaitDispatch"
  /\ calls' = [calls EXCEPT ![c].pc = "awaitWait"]
  /\ UNCHANGED <<usedNonces, userTracking, now, auditVars, gate, helperVars>>

\* The chain client rejects the submission.
DispatchFails(c) ==
  /\ calls[c].pc = "awaitDispatch"
  /\ calls' = [calls EXCEPT ![c] = Fail(@, "submission failed")]
  /\ UNCHANGED <<usedNonces, userTracking, now, auditVars, gate, helperVars>>

\* tx.wait() returns the receipt, whose gasUsed * gasPrice is the frame's
\* cost: recordTransaction, then the result object is built up to
\* `await this.getRemainingSpend(userAddress)`.
Confirmed(c, gasSpent) ==
  /\ calls[c].pc = "awaitWait"
  /\ userTracking' = RecordTransaction(userTracking, calls[c].userAddress,
                                       calls[c].intent, gasSpent, now)
  /\ LET spend == GetRemainingSpend(userTracking', calls[c].userAddress, now)
     IN  calls' = [calls EXCEPT ![c].pc = "awaitSpend",
                                ![c].cost = gasSpent,
                                ![c].policyInfo.hourly = spend.hourly,
                                ![c].policyInfo.daily = spend.daily]
  /\ UNCHANGED <<usedNonces, now, auditVars, gate, helperVars>>

\* WaitFails with the transaction recorded before the error is thrown.
WaitFailsRecorded(c) ==
  /\ calls[c].pc = "awaitWait"
  /\ userTracking' = RecordTransaction(userTracking, calls[c].userAddress,
                                       calls[c].intent, 1, now)
  /\ calls' = [calls EXCEPT ![c] = Fail(@, "transaction reverted")]
  /\ UNCHANGED <<usedNonces, now, auditVars, gate, helperVars>>

\* tx.wait() throws: the transaction reverted or was never mined.
WaitFails(c) ==
  /\ calls[c].pc = "awaitWait"
  /\ calls' = [calls EXCEPT ![c] = Fail(@, "transaction reverted")]
  /\ UNCHANGED <<usedNonces, userTracking, now, auditVars, gate, helperVars>>

\* The await of getRemainingSpend resumes: getRemainingTx, return.
Finish(c) ==
  /\ calls[c].pc = "awaitSpend"
  /\ LET tx == GetRemainingTx(userTracking, calls[c].userAddress, now)
     IN  calls' = [calls EXCEPT ![c].pc = "done",
                                ![c].policyInfo.perMinute = tx.perMinute,
                                ![c].policyInfo.perHour = tx.perHour,
                                ![c].policyInfo.perDay = tx.perDay]
  /\ UNCHANGED <<usedNonces, userTracking, now, auditVars, gate, helperVars>>

\* One second passes.
Tick ==
  /\ now < StartTime + MaxTicks * 1000
  /\ now' = now + 1000
  /\ UNCHANGED <<usedNonces, userTracking, calls, auditVars, gate, helperVars>>

(***************************************************************************)
(* The callers: the intents, signatures and addresses they present.        *)
(***************************************************************************)
UserKey == "0xab"                       \* the account that signs intents
IntentTypes == {"deploy_contract", "transfer", "call_contract", "swap"}
Nonces == 0..MaxNonce

StartSeconds == StartTime \div 1000
FutureDeadline == StartSeconds + 3600   \* createIntent's default deadline
PastDeadline == StartSeconds - 1

DataOf(type, score) ==
  [auditScore |-> IF type = "deploy_contract" THEN score ELSE Undefined,
   bytecode |-> IF type = "deploy_contract" THEN "0x6080" ELSE "",
   contract |-> IF type = "call_contract" THEN "0xC0DE" ELSE ""]

\* createIntent of the signing client: the dataHash is the digest of data.
CreateIntent(type, nonce, deadline, score) ==
  [type |-> type, nonce |-> nonce, deadline |-> deadline,
   dataHash |-> Keccak(DataOf(type, score)), data |-> DataOf(type, score)]

\* signIntent of the signing client.
SignIntent(intent) == SignTypedData(UserKey, IntentMessage(intent))

Request(origin, intent, signature, userAddress) ==
  [origin |-> origin, intent |-> intent, signature |-> signature,
   userAddress |-> userAddress]

\* A well-signed intent sent by the client to the execute endpoint.
Signed(intent, userAddress) ==
  Request("request", intent, SignIntent(intent), userAddress)

\* Replay and concurrency: well-signed intents of every type and nonce, with
\* and without the user's address.
Requests ==
  {Signed(CreateIntent(t, n, FutureDeadline, MinAuditScore), u) :
     t \in IntentTypes, n \in Nonces, u \in {NULL, "0xAB"}}

\* Signatures: one transfer intent presented with every kind of signature.
\* A marker string arrives either from an internal operation or, like any
\* other signature, in the body of a client's request.
BaseIntent == CreateIntent("transfer", 1, FutureDeadline, Undefined)

SigRequests ==
  {Signed(BaseIntent, "0xAB"),
   Request("request", BaseIntent,
           SignIntent([BaseIntent EXCEPT !.nonce = 2]), "0xAB"),
   Request("request", BaseIntent,
           SignIntent([BaseIntent EXCEPT !.deadline = FutureDeadline + 60]), "0xAB"),
   Request("request", BaseIntent, RawSignature(MalformedRaw), "0xAB"),
   Request("request", BaseIntent, RawSignature("auto-transfer"), "0xAB"),
   Request("internal", BaseIntent, RawSignature("auto-transfer"), "0xAB")}

\* Deadline and audit gates: one field of a well-signed intent varies.
GateRequests ==
  {Signed(CreateIntent("transfer", n, d, Undefined), "0xAB") :
     n \in Nonces, d \in {0, PastDeadline, FutureDeadline}}
  \cup {Signed(CreateIntent("deploy_contract", n, FutureDeadline, s), "0xAB") :
          n \in Nonces, s \in {Undefined, 0, MinAuditScore - 1, MinAuditScore}}

\* Rate windows: the same user sends well-signed transfers.
RateRequests ==
  {Signed(CreateIntent("transfer", n, FutureDeadline, Undefined), "0xAB") :
     n \in Nonces}

\* receipt.gasUsed * receipt.gasPrice of a confirmed transaction, in units of
\* 0.00001 BNB.
GasCosts == {1}

(***************************************************************************)
(* Ledgers a facilitator that has been serving UserKey holds: each is the  *)
(* history of intents that were validated and confirmed one after another  *)
(* under POLICY, `count` records `gap` milliseconds apart.                 *)
(***************************************************************************)
WarmNonceBase == 1000  \* the earlier intents carried nonces above this

Spread(count, first, gap) ==
  [i \in 1..count |->
     [timestamp |-> first + (i - 1) * gap, type |-> "transfer", gasSpent |-> 1]]

WarmHistories ==
  { \* one slot left in the minute window
    Spread(MaxTxPerMinute - 1, StartTime - 4000, 1000),
    \* the minute window is full; its oldest record is 59 seconds old
    Spread(1, StartTime - 59000, 0)
      \o Spread(MaxTxPerMinute - 1, StartTime - 4000, 1000),
    \* the hour window is full, the minute window empty
    Spread(MaxTxPerHour, StartTime - 30 * MinuteMs, 20000),
    \* the day window is full, the hour window empty
    Spread(MaxTxPerDay, StartTime - 20000000, 150000),
    \* the minute and the hour window are full
    Spread(MaxTxPerHour - MaxTxPerMinute, StartTime - 30 * MinuteMs, 20000)
      \o Spread(MaxTxPerMinute, StartTime - 5000, 1000) }

\* The same, with every transaction costing `cost`.
Costing(history, cost) ==
  [i \in DOMAIN history |-> [history[i] EXCEPT !.gasSpent = cost]]

SpendHistories ==
  { \* the hour's spend is one unit below maxSpendPerHour
    Costing(Spread(1, StartTime - 10 * MinuteMs, 0), MaxSpendPerHour - 1),
    \* the hour's spend is exactly maxSpendPerHour
    Costing(Spread(2, StartTime - 10 * MinuteMs, MinuteMs), MaxSpendPerHour \div 2),
    \* the day's spend is exactly maxSpendPerDay, the hour's spend nothing
    Costing(Spread(MaxSpendPerDay \div MaxSpendPerHour, StartTime - 6 * HourMs, HourMs),
            MaxSpendPerHour),
    \* the minute and hour windows are full and the last transaction took
    \* the hour's spend to maxSpendPerHour
    Spread(MaxTxPerHour - MaxTxPerMinute, StartTime - 30 * MinuteMs, 20000)
      \o Spread(MaxTxPerMinute - 1, StartTime - 5000, 1000)
      \o Costing(Spread(1, StartTime - 1000, 0), MaxSpendPerHour) }

\* Ledgers of a user served for ten days, a transaction every quarter of
\* an hour: one record short of the history cap, and at the cap.
FullHistories ==
  {Spread(HistoryCap - 1, StartTime - HistoryCap * 15 * MinuteMs, 15 * MinuteMs),
   Spread(HistoryCap, StartTime - HistoryCap * 15 * MinuteMs, 15 * MinuteMs)}

\* Ledgers of UserKey with one transaction left in the minute window, and
\* with one unit left of the hour's spend.
CaseHistories ==
  {Spread(MaxTxPerMinute - 1, StartTime - 4000, 1000),
   Costing(Spread(1, StartTime - 10 * MinuteMs, 0), MaxSpendPerHour - 1)}

\* Two intents of one account, sent under two spellings of its address.
CaseRequests ==
  {Signed(CreateIntent("transfer", 1, FutureDeadline, Undefined), "0xAB"),
   Signed(CreateIntent("transfer", 2, FutureDeadline, Undefined), "0xab")}

\* Policy engine: intents that break no rule or several at once.  The
\* nonce WarmNonceBase + 1 was used by the first transaction of the ledger.
MixRequests ==
  {Signed(CreateIntent(t, n, d, MinAuditScore - 1), u) :
     t \in {"transfer", "deploy_contract", "bridge"},
     n \in {1, WarmNonceBase + 1},
     d \in {PastDeadline, FutureDeadline},
     u \in {"0xAB"}}

\* A cost below the rounding of the reported digit and one above it.
SpendCosts == {1, 15}

(***************************************************************************)
(* Generate-audit-retry loop (src/src/services/auditLoop.js) and the       *)
(* ChainGPT client it drives (ChainGPTService).                            *)
(*                                                                         *)
(* generateWithAudit is an async generator.  The variable loop is its      *)
(* frame, events the values it has yielded so far, stream what the model   *)
(* endpoint has still to send for the running attempt, and auditCalls the  *)
(* invocations of auditContract.  An action runs the generator from one    *)
(* await on a collaborator to the next, yields included.                   *)
(*                                                                         *)
(* Texts are sequences of fragments: a model response is the sequence of   *)
(* its chunks and an audit report the sequence of its phrases.             *)
(***************************************************************************)
AuditScoreThreshold == 80   \* this.threshold (constructor default)
MaxRetriesRange == 3        \* callers pass maxRetries in 0..MaxRetriesRange

\* Fragments of a model response; [fence] stands for the three backquotes of
\* a markdown fence, and a fragment ends with its line.
FenceOpen == "[fence]solidity"
FenceClose == "[fence]"
Spdx == "// SPDX-License-Identifier: MIT"
PragmaLine == "pragma solidity ^0.8.20;"
ContractBody == "contract Token { uint256 public supply; }"
LineComment == "// Token contract"
Prose == "Here is the contract you asked for. "

IsFence(fragment) == fragment \in {FenceOpen, FenceClose}
HasPragma(fragment) == fragment = PragmaLine       \* includes('pragma solidity')
HasContract(fragment) == fragment = ContractBody   \* includes('contract ')
HasBrace(fragment) == fragment = ContractBody      \* holds a '}'
StartsAsSolidity(fragment) == fragment \in {Spdx, LineComment, PragmaLine}

NoCode == <<>>              \* null: no branch of the extractor returns ''

Least(S) == CHOOSE x \in S : \A y \in S : x <= y
Greatest(S) == CHOOSE x \in S : \A y \in S : y <= x

\* markdownMatch[1]: what lies between the first opening fence and the
\* first fence after it ('' and "no match" are both falsy).
MarkdownMatch(response) ==
  LET opens == {i \in 1..Len(response) : response[i] = FenceOpen}
  IN IF opens = {} THEN NoCode
     ELSE LET i == Least(opens)
              closes == {j \in (i + 1)..Len(response) : IsFence(response[j])}
          IN IF closes = {} THEN NoCode
             ELSE SubSeq(response, i + 1, Least(closes) - 1)

\* text.substring(0, text.lastIndexOf('}') + 1), NoCode when lastBrace <= 0.
UpToLastBrace(text) ==
  LET braces == {k \in 1..Len(text) : HasBrace(text[k])}
  IN IF braces = {} THEN NoCode ELSE SubSeq(text, 1, Greatest(braces))

\* response.match(/(marker[\s\S]*)/)[1] cut after its last brace.
FromMarker(response, marker) ==
  LET starts == {i \in 1..Len(response) : response[i] = marker}
  IN IF starts = {} THEN NoCode
     ELSE UpToLastBrace(SubSeq(response, Least(starts), Len(response)))

ExtractSolidityCode(response) ==
  LET markdown == MarkdownMatch(response)
  IN IF response = <<>> THEN NoCode
     ELSE IF /\ markdown /= <<>>
             /\ \E k \in 1..Len(markdown) :
                  HasPragma(markdown[k]) \/ HasContract(markdown[k])
       THEN markdown
     ELSE IF FromMarker(response, Spdx) /= NoCode
       THEN FromMarker(response, Spdx)
     ELSE IF FromMarker(response, PragmaLine) /= NoCode
       THEN FromMarker(response, PragmaLine)
     ELSE IF StartsAsSolidity(Head(response))
       THEN UpToLastBrace(response)
     ELSE NoCode

\* Phrases of an audit report.
ScorePhrase(n) == [word |-> "score", digits |-> n]   \* "Score: <n>"
Phrase(w) == [word |-> w, digits |-> 0]
CountOf(report, w) == Cardinality({k \in 1..Len(report) : report[k].word = w})

ClampScore(score) ==
  IF score < 0 THEN 0 ELSE IF score > 100 THEN 100 ELSE score

ExtractAuditScore(report) ==
  LET scoreMatch == {k \in 1..Len(report) : report[k].word = "score"}
  IN IF scoreMatch /= {}
       THEN report[Least(scoreMatch)].digits
       ELSE ClampScore(100 - CountOf(report, "critical") * 30
                           - CountOf(report, "high severity") * 15
                           - CountOf(report, "medium severity") * 5)

AuditContract(report) ==
  [success |-> TRUE, report |-> report, score |-> ExtractAuditScore(report)]

NoAudit == [success |-> FALSE, report |-> <<>>, score |-> Undefined]

IssuePatterns ==
  <<"critical", "high severity", "medium severity",
    "vulnerability", "issue", "warning">>

RECURSIVE MatchesOf(_, _)
MatchesOf(report, p) ==
  IF p > Len(IssuePatterns) THEN <<>>
  ELSE SelectSeq(report, LAMBDA phrase : phrase.word = IssuePatterns[p])
         \o MatchesOf(report, p + 1)

ExtractIssues(report) ==
  LET issues == MatchesOf(report, 1)
      sentences == SubSeq(report, 1, IF Len(report) < 3 THEN Len(report) ELSE 3)
      found == IF issues /= <<>> THEN issues
               ELSE SelectSeq(sentences, LAMBDA phrase : phrase.word = "remark")
  IN SubSeq(found, 1, IF Len(found) < 5 THEN Len(found) ELSE 5)

\* The template uses originalPrompt and the issues; previousCode is unused.
UserPrompt(text) == [original |-> text, feedback |-> FALSE, issues |-> <<>>]
CreateFeedbackPrompt(originalPrompt, previousCode, issues) ==
  [original |-> originalPrompt.original, feedback |-> TRUE, issues |-> issues]

\* Yielded events; a field an event does not carry holds its absent value.
NoAttempt == 0
Event(type, attempt, code, audit, text) ==
  [type |-> type, attempt |-> attempt, code |-> code,
   score |-> audit.score, report |-> audit.report, text |-> text]

IdleLoop ==
  [pc |-> "idle", attempt |-> 0, maxRetries |-> 0,
   prompt |-> UserPrompt(""), currentPrompt |-> UserPrompt(""),
   rawOutput |-> <<>>, generatedCode |-> NoCode, auditResult |-> NoAudit,
   error |-> ""]

AuditIdle ==
  /\ loop = IdleLoop
  /\ stream = <<>>
  /\ events = <<>>
  /\ auditCalls = <<>>

\* generateWithAudit(prompt, maxRetries): the generator is created and
\* stands before the first test of its for loop.
GenerateWithAudit(prompt, maxRetries) ==
  /\ loop.pc = "idle"
  /\ loop' = [IdleLoop EXCEPT !.pc = "loopTop",
                              !.attempt = 1,
                              !.maxRetries = maxRetries,
                              !.prompt = UserPrompt(prompt),
                              !.currentPrompt = UserPrompt(prompt)]
  /\ events' = <<>>
  /\ UNCHANGED <<stream, auditCalls, facilitatorVars, gate, helperVars>>

\* Lines 24-36: the head of an attempt up to the first read of the stream;
\* response is what the endpoint is going to send.
AttemptStarts(response) ==
  /\ loop.pc = "loopTop"
  /\ loop.attempt <= loop.maxRetries
  /\ events' = events \o <<Event("attempt", loop.attempt, NoCode, NoAudit, "Attempt"),
                           Event("status", NoAttempt, NoCode, NoAudit,
                                 "Generating contract...")>>
  /\ loop' = [loop EXCEPT !.pc = "awaitChunk", !.rawOutput = <<>>]
  /\ stream' = response
  /\ UNCHANGED <<auditCalls, facilitatorVars, gate, helperVars>>

\* Line 24: the for loop has no attempt left and the generator returns.
LoopExits ==
  /\ loop.pc = "loopTop"
  /\ loop.attempt > loop.maxRetries
  /\ loop' = [loop EXCEPT !.pc = "returned"]
  /\ UNCHANGED <<stream, events, auditCalls, facilitatorVars, gate, helperVars>>

\* Lines 37-40: one chunk arrives.
Chunk ==
  /\ loop.pc = "awaitChunk"
  /\ stream /= <<>>
  /\ loop' = [loop EXCEPT !.rawOutput = @ \o <<Head(stream)>>]
  /\ events' = events \o <<Event("code_chunk", NoAttempt, NoCode, NoAudit,
                                 Head(stream))>>
  /\ stream' = Tail(stream)
  /\ UNCHANGED <<auditCalls, facilitatorVars, gate, helperVars>>

\* Lines 100-112: the catch clause of the attempt.
CatchAndGoOn(message) ==
  /\ events' = events \o <<Event("error", loop.attempt, NoCode, NoAudit, message)>>
  /\ loop' = [loop EXCEPT !.pc = "loopTop", !.attempt = @ + 1, !.error = message]
  /\ stream' = <<>>

CatchSilently(message) ==
  /\ events' = events
  /\ loop' = [loop EXCEPT !.pc = IF loop.attempt >= loop.maxRetries
                                   THEN "thrown" ELSE "loopTop",
                          !.attempt = IF loop.attempt >= loop.maxRetries
                                        THEN @ ELSE @ + 1,
                          !.error = message]
  /\ stream' = <<>>

Catch(message) ==
  /\ events' = events \o <<Event("error", loop.attempt, NoCode, NoAudit, message)>>
  /\ loop' = [loop EXCEPT !.pc = IF loop.attempt >= loop.maxRetries
                                   THEN "thrown" ELSE "loopTop",
                          !.attempt = IF loop.attempt >= loop.maxRetries
                                        THEN @ ELSE @ + 1,
                          !.error = message]
  /\ stream' = <<>>

\* generateContractStream throws (the request or a read fails).
StreamFails ==
  /\ loop.pc = "awaitChunk"
  /\ Catch("Contract generation failed")
  /\ UNCHANGED <<auditCalls, facilitatorVars, gate, helperVars>>

StreamEndsAuditsAnyway ==
  /\ loop.pc = "awaitChunk"
  /\ stream = <<>>
  /\ LET generatedCode == ExtractSolidityCode(loop.rawOutput)
     IN /\ events' = events \o <<Event("code_complete", NoAttempt, generatedCode,
                                        NoAudit, "complete"),
                                  Event("status", NoAttempt, NoCode, NoAudit,
                                        "Auditing contract...")>>
        /\ loop' = [loop EXCEPT !.pc = "awaitAudit",
                                !.generatedCode = generatedCode]
        /\ auditCalls' = auditCalls \o
             <<[attempt |-> loop.attempt, code |-> generatedCode]>>
        /\ UNCHANGED stream
  /\ UNCHANGED <<facilitatorVars, gate, helperVars>>

\* Lines 43-58: the stream is done; extract the code and call the auditor.
StreamEnds ==
  /\ loop.pc = "awaitChunk"
  /\ stream = <<>>
  /\ LET generatedCode == ExtractSolidityCode(loop.rawOutput)
     IN IF generatedCode = NoCode
          THEN /\ Catch("Could not extract Solidity code from response")
               /\ UNCHANGED auditCalls
          ELSE /\ events' = events \o <<Event("code_complete", NoAttempt, generatedCode,
                                              NoAudit, "complete"),
                                        Event("status", NoAttempt, NoCode, NoAudit,
                                              "Auditing contract...")>>
               /\ loop' = [loop EXCEPT !.pc = "awaitAudit",
                                       !.generatedCode = generatedCode]
               /\ auditCalls' = auditCalls \o
                    <<[attempt |-> loop.attempt, code |-> generatedCode]>>
               /\ UNCHANGED stream
  /\ UNCHANGED <<facilitatorVars, gate, helperVars>>

\* The last attempt announcing a retry like the others.
AuditReturnsRetriesOn(report) ==
  LET auditResult == AuditContract(report)
      audited == events \o <<Event("audit_complete", NoAttempt, NoCode,
                                     auditResult, "Audit complete")>>
  IN /\ loop.pc = "awaitAudit"
     /\ IF auditResult.score >= AuditScoreThreshold
          THEN /\ events' = audited \o
                    <<Event("success", NoAttempt, loop.generatedCode,
                            auditResult, "passed")>>
               /\ loop' = [loop EXCEPT !.pc = "returned",
                                       !.auditResult = auditResult]
        ELSE IF loop.attempt <= loop.maxRetries
          THEN /\ events' = audited \o <<Event("retry", loop.attempt, NoCode,
                            [auditResult EXCEPT !.report = <<>>],
                            "below threshold")>>
               /\ loop' = [loop EXCEPT
                    !.pc = "loopTop",
                    !.auditResult = auditResult,
                    !.attempt = @ + 1,
                    !.currentPrompt =
                       CreateFeedbackPrompt(loop.prompt, loop.generatedCode,
                                            ExtractIssues(auditResult.report))]
          ELSE /\ events' = audited \o
                    <<Event("failed", NoAttempt, loop.generatedCode,
                            auditResult, "Best score")>>
               /\ loop' = [loop EXCEPT !.pc = "loopTop",
                                       !.auditResult = auditResult,
                                       !.attempt = @ + 1]
     /\ UNCHANGED <<stream, auditCalls, facilitatorVars, gate, helperVars>>

\* Lines 58-98: auditContract resolves with the report it fetched.
AuditReturnsStrict(report) ==
  LET auditResult == AuditContract(report)
      audited == events \o <<Event("audit_complete", NoAttempt, NoCode,
                                     auditResult, "Audit complete")>>
  IN /\ loop.pc = "awaitAudit"
     /\ IF auditResult.score > AuditScoreThreshold
          THEN /\ events' = audited \o
                    <<Event("success", NoAttempt, loop.generatedCode,
                            auditResult, "passed")>>
               /\ loop' = [loop EXCEPT !.pc = "returned",
                                       !.auditResult = auditResult]
        ELSE IF loop.attempt < loop.maxRetries
          THEN /\ events' = audited \o <<Event("retry", loop.attempt, NoCode,
                            [auditResult EXCEPT !.report = <<>>],
                            "below threshold")>>
               /\ loop' = [loop EXCEPT
                    !.pc = "loopTop",
                    !.auditResult = auditResult,
                    !.attempt = @ + 1,
                    !.currentPrompt =
                       CreateFeedbackPrompt(loop.prompt, loop.generatedCode,
                                            ExtractIssues(auditResult.report))]
          ELSE /\ events' = audited \o
                    <<Event("failed", NoAttempt, loop.generatedCode,
                            auditResult, "Best score")>>
               /\ loop' = [loop EXCEPT !.pc = "loopTop",
                                       !.auditResult = auditResult,
                                       !.attempt = @ + 1]
     /\ UNCHANGED <<stream, auditCalls, facilitatorVars, gate, helperVars>>

AuditReturns(report) ==
  LET auditResult == AuditContract(report)
      audited == events \o <<Event("audit_complete", NoAttempt, NoCode,
                                     auditResult, "Audit complete")>>
  IN /\ loop.pc = "awaitAudit"
     /\ IF auditResult.score >= AuditScoreThreshold
          THEN /\ events' = audited \o
                    <<Event("success", NoAttempt, loop.generatedCode,
                            auditResult, "passed")>>
               /\ loop' = [loop EXCEPT !.pc = "returned",
                                       !.auditResult = auditResult]
        ELSE IF loop.attempt < loop.maxRetries
          THEN /\ events' = audited \o <<Event("retry", loop.attempt, NoCode,
                            [auditResult EXCEPT !.report = <<>>],
                            "below threshold")>>
               /\ loop' = [loop EXCEPT
                    !.pc = "loopTop",
                    !.auditResult = auditResult,
                    !.attempt = @ + 1,
                    !.currentPrompt =
                       CreateFeedbackPrompt(loop.prompt, loop.generatedCode,
                                            ExtractIssues(auditResult.report))]
          ELSE /\ events' = audited \o
                    <<Event("failed", NoAttempt, loop.generatedCode,
                            auditResult, "Best score")>>
               /\ loop' = [loop EXCEPT !.pc = "loopTop",
                                       !.auditResult = auditResult,
                                       !.attempt = @ + 1]
     /\ UNCHANGED <<stream, auditCalls, facilitatorVars, gate, helperVars>>

\* auditContract throws.
AuditFails ==
  /\ loop.pc = "awaitAudit"
  /\ Catch("Contract audit failed")
  /\ UNCHANGED <<auditCalls, facilitatorVars, gate, helperVars>>

\* What the endpoint and the auditor answer in the runs explored.
Responses ==
  {<<FenceOpen, ContractBody, FenceClose>>,
   <<Spdx, ContractBody, Prose>>,
   <<Prose>>}
Reports ==
  {<<ScorePhrase(80)>>, <<ScorePhrase(79)>>, <<ScorePhrase(150)>>,
   <<Phrase("critical")>>,
   <<Phrase("critical"), Phrase("critical"),
     Phrase("critical"), Phrase("critical")>>,
   <<Phrase("remark"), Phrase("high severity")>>}


(***************************************************************************)
(* Payment gate (src/src/middleware/x402.js).  The middleware is async:    *)
(* gate holds one frame per request passing through it, advanced from one  *)
(* await to the next.  PaymentService is described as the specification of *)
(* the payment gate describes it: a challenge {amount, token, recipient,   *)
(* chainId}, a decoder of the proof header and the signature primitive     *)
(* that recovers the payer of a proof.                                     *)
(***************************************************************************)
MaxRequests == 2       \* requests that pass through the gate

Exchanges == 1..MaxRequests

X402Config ==
  [amount |-> "1000", token |-> "0xAB", recipient |-> "0xCD",
   chainId |-> 97, verifyingContract |-> "0xCD",
   description |-> "Contract audit"]

\* c.req.header('x-payment'): "undefined" when the request has no such
\* header, "empty" for the header '', "garbled" for what is no encoded proof.
PlainHeader(kind) == [kind |-> kind]
EncodedProof(details, signature) ==
  [kind |-> "proof", paymentDetails |-> details, signature |-> signature]

PaymentDetails(amount, token) ==
  [amount |-> amount, token |-> token, recipient |-> X402Config.recipient]
SignedBy(payer, details) == [signer |-> payer, over |-> details]
Unsigned == [signer |-> NULL, over |-> PaymentDetails("", "")]

CreatePaymentChallenge(amount, token, recipient, chainId, verifyingContract) ==
  [amount |-> amount, token |-> token, recipient |-> recipient,
   chainId |-> chainId]

DecodeThrows(header) == header.kind /= "proof"
DecodePaymentHeader(header) ==
  [paymentDetails |-> header.paymentDetails, signature |-> header.signature]

VerifyPaymentSignature(details, signature) ==
  IF signature.signer /= NULL /\ signature.over = details
    THEN [valid |-> TRUE, payer |-> signature.signer,
          amount |-> details.amount, token |-> details.token, error |-> ""]
    ELSE [valid |-> FALSE, payer |-> NULL, amount |-> "", token |-> "",
          error |-> "Invalid signature"]

NoPayment == [verified |-> FALSE, payer |-> NULL, amount |-> "", token |-> ""]
NoResponse ==
  [status |-> 0, error |-> "",
   challenge |-> CreatePaymentChallenge("", "", "", 0, ""),
   requiredAmount |-> "", requiredToken |-> ""]

\* c.json(body, status)
Json(status, error) == [NoResponse EXCEPT !.status = status, !.error = error]
BareChallenge == Json(402, "Payment required")

ChallengeResponse ==
  [status |-> 402, error |-> "",
   challenge |-> CreatePaymentChallenge(X402Config.amount, X402Config.token,
                                        X402Config.recipient, X402Config.chainId,
                                        X402Config.verifyingContract),
   requiredAmount |-> X402Config.amount,
   requiredToken |-> X402Config.token]

IdleExchange ==
  [pc |-> "idle", header |-> PlainHeader("undefined"), paymentData |-> DecodePaymentHeader(
                                          EncodedProof(PaymentDetails("", ""), Unsigned)),
   response |-> NoResponse, payment |-> NoPayment,
   paymentAtNext |-> NoPayment, nextCalls |-> 0]

GateIdle == gate = [r \in Exchanges |-> IdleExchange]

\* Lines 25-63: a request enters the middleware, which runs up to the await
\* of verifyPaymentSignature.
Enters(r, header) ==
  /\ gate[r].pc = "idle"
  /\ gate' = [gate EXCEPT ![r] =
       IF header.kind \in {"undefined", "empty"}
         THEN [@ EXCEPT !.pc = "done", !.header = header,
                        !.response = ChallengeResponse]
       ELSE IF DecodeThrows(header)
         THEN [@ EXCEPT !.pc = "done", !.header = header,
                        !.response = Json(400, "Invalid payment header format")]
       ELSE [@ EXCEPT !.pc = "awaitVerify", !.header = header,
                      !.paymentData = DecodePaymentHeader(header)]]
  /\ UNCHANGED <<facilitatorVars, auditVars, helperVars>>

VerifiedAnyAmount(r) ==
  LET verification == VerifyPaymentSignature(gate[r].paymentData.paymentDetails,
                                             gate[r].paymentData.signature)
      payment == [verified |-> TRUE, payer |-> verification.payer,
                  amount |-> verification.amount, token |-> verification.token]
  IN /\ gate[r].pc = "awaitVerify"
     /\ gate' = [gate EXCEPT ![r] =
          IF ~verification.valid
            THEN [@ EXCEPT !.pc = "done",
                           !.response = Json(402, "Payment verification failed")]
          ELSE IF ToLowerCase(verification.token) /= ToLowerCase(X402Config.token)
            THEN [@ EXCEPT !.pc = "done",
                           !.response = Json(402, "Invalid payment token")]
          ELSE [@ EXCEPT !.pc = "awaitNext",
                         !.payment = payment,
                         !.paymentAtNext = payment,
                         !.nextCalls = @ + 1]]
     /\ UNCHANGED <<facilitatorVars, auditVars, helperVars>>

\* Lines 60-103: the verification resolves; the checks either answer the
\* request or attach the payment and call next().
Verified(r) ==
  LET verification == VerifyPaymentSignature(gate[r].paymentData.paymentDetails,
                                             gate[r].paymentData.signature)
      payment == [verified |-> TRUE, payer |-> verification.payer,
                  amount |-> verification.amount, token |-> verification.token]
  IN /\ gate[r].pc = "awaitVerify"
     /\ gate' = [gate EXCEPT ![r] =
          IF ~verification.valid
            THEN [@ EXCEPT !.pc = "done",
                           !.response = Json(402, "Payment verification failed")]
          ELSE IF verification.amount /= X402Config.amount
            THEN [@ EXCEPT !.pc = "done",
                           !.response = Json(402, "Invalid payment amount")]
          ELSE IF ToLowerCase(verification.token) /= ToLowerCase(X402Config.token)
            THEN [@ EXCEPT !.pc = "done",
                           !.response = Json(402, "Invalid payment token")]
          ELSE [@ EXCEPT !.pc = "awaitNext",
                         !.payment = payment,
                         !.paymentAtNext = payment,
                         !.nextCalls = @ + 1]]
     /\ UNCHANGED <<facilitatorVars, auditVars, helperVars>>

\* Line 103: the downstream handler answers the request.
NextReturns(r) ==
  /\ gate[r].pc = "awaitNext"
  /\ gate' = [gate EXCEPT ![r].pc = "done", ![r].response = Json(200, "")]
  /\ UNCHANGED <<facilitatorVars, auditVars, helperVars>>

\* Lines 114-119: the downstream handler throws.
NextThrows(r) ==
  /\ gate[r].pc = "awaitNext"
  /\ gate' = [gate EXCEPT ![r].pc = "done",
                          ![r].response = Json(500, "Payment processing error")]
  /\ UNCHANGED <<facilitatorVars, auditVars, helperVars>>

\* The x-payment headers clients send.
SignatureOf(kind, details) ==
  CASE kind = "payer" -> SignedBy("0xAB", details)
    [] kind = "replayed" -> SignedBy("0xAB", PaymentDetails("1000", "0xAB"))
    [] OTHER -> Unsigned
ProofHeaders ==
  {EncodedProof(PaymentDetails(a, t), SignatureOf(kind, PaymentDetails(a, t))) :
     a \in {"999", "1000", "1001"}, t \in {"0xAB", "0xab", "0xCD"},
     kind \in {"payer", "replayed", "none"}}
Headers ==
  {PlainHeader(kind) : kind \in {"undefined", "empty", "garbled"}} \cup ProofHeaders

(***************************************************************************)
(* Gas estimation (facilitator.js:505-528).  estimateGas touches no field  *)
(* of the facilitator; quotes holds what it last returned for each intent  *)
(* type.  Gas prices and costs are counted in gwei.                        *)
(***************************************************************************)
BaselineGasFallThrough(type) ==
  CASE type = "deploy_contract" -> 2000000
    [] type = "transfer" -> 100000
    [] type = "call_contract" -> 100000
    [] type = "swap" -> 200000
    [] OTHER -> 100000

BaselineGas(type) ==
  CASE type = "deploy_contract" -> 2000000
    [] type = "transfer" -> 21000
    [] type = "call_contract" -> 100000
    [] type = "swap" -> 200000
    [] OTHER -> 100000

\* ethers.formatEther: the decimal number of ether, here its whole part and
\* its fraction in gwei.
FormatEther(gwei) ==
  [whole |-> gwei \div 1000000000, fraction |-> gwei % 1000000000]

NoQuote == [gasPrice |-> 0, cost |-> FormatEther(0), failed |-> FALSE]
FallbackQuote ==      \* return '0.001'
  [gasPrice |-> 0, cost |-> FormatEther(1000000), failed |-> TRUE]

\* estimateGas(intent) with the gas price getFeeData reports.
EstimateGas(intent, gasPrice) ==
  /\ quotes' = [quotes EXCEPT ![intent.type] =
                  [gasPrice |-> gasPrice,
                   cost |-> FormatEther(BaselineGas(intent.type) * gasPrice),
                   failed |-> FALSE]]
  /\ quotes' /= quotes
  /\ UNCHANGED <<facilitatorVars, auditVars, gate, cache, stats, got>>

\* getFeeData rejects and the catch clause answers.
EstimateGasFails(intent) ==
  /\ quotes' = [quotes EXCEPT ![intent.type] = FallbackQuote]
  /\ quotes' /= quotes
  /\ UNCHANGED <<facilitatorVars, auditVars, gate, cache, stats, got>>

(***************************************************************************)
(* Cache service (part_000:6-126).  cache is the Map of the service, its   *)
(* entries in insertion order; stats its counters; got the calls of set,   *)
(* get, delete and clear in the order they were made, a get with the value *)
(* it returned.  Date.now() is the clock of the facilitator.               *)
(***************************************************************************)
MaxOps == 3            \* calls of set, get, delete and clear
DefaultTtl == 60000    \* set(key, value, ttl = 60000)

\* Map.prototype.has and Map.prototype.get
Has(entries, key) == \E i \in 1..Len(entries) : entries[i].key = key
EntryOf(entries, key) ==
  entries[CHOOSE i \in 1..Len(entries) : entries[i].key = key]

\* Map.prototype.set: the entry of a key the map holds is replaced where it
\* stands, that of a new key is added at the end.
MapSet(entries, entry) ==
  IF Has(entries, entry.key)
    THEN [i \in 1..Len(entries) |->
            IF entries[i].key = entry.key THEN entry ELSE entries[i]]
    ELSE Append(entries, entry)

\* Map.prototype.delete
MapDelete(entries, key) == SelectSeq(entries, LAMBDA en : en.key /= key)

\* if (Date.now() > entry.expiresAt)
Expired(entry, nowMs) == nowMs > entry.expiresAt

Logged(op, key, value, ttl) ==
  [op |-> op, key |-> key, value |-> value, ttl |-> ttl, at |-> now]

\* get returning the value of whatever entry it finds.
GetIgnoringExpiry(key) ==
  /\ Len(got) < MaxOps
  /\ cache' = cache
  /\ stats' = IF Has(cache, key) THEN [stats EXCEPT !.hits = @ + 1]
               ELSE [stats EXCEPT !.misses = @ + 1]
  /\ got' = Append(got, Logged("get", key,
                                IF Has(cache, key) THEN EntryOf(cache, key).value
                                ELSE NULL, 0))
  /\ UNCHANGED <<facilitatorVars, auditVars, gate, quotes>>

\* get(key)
Get(key) ==
  /\ Len(got) < MaxOps
  /\ IF ~Has(cache, key)
       THEN /\ stats' = [stats EXCEPT !.misses = @ + 1]
            /\ got' = Append(got, Logged("get", key, NULL, 0))
            /\ cache' = cache
     ELSE IF Expired(EntryOf(cache, key), now)
       THEN /\ cache' = MapDelete(cache, key)
            /\ stats' = [stats EXCEPT !.misses = @ + 1]
            /\ got' = Append(got, Logged("get", key, NULL, 0))
     ELSE /\ stats' = [stats EXCEPT !.hits = @ + 1]
          /\ got' = Append(got, Logged("get", key, EntryOf(cache, key).value, 0))
          /\ cache' = cache
  /\ UNCHANGED <<facilitatorVars, auditVars, gate, quotes>>

\* set(key, value, ttl); a caller that passes no ttl gets the default.
Set(key, value, ttl) ==
  /\ Len(got) < MaxOps
  /\ LET life == IF ttl = Undefined THEN DefaultTtl ELSE ttl
     IN  /\ cache' = MapSet(cache, [key |-> key, value |-> value,
                                    expiresAt |-> now + life, createdAt |-> now])
         /\ got' = Append(got, Logged("set", key, value, life))
  /\ UNCHANGED <<facilitatorVars, auditVars, gate, quotes, stats>>

\* delete(key)
Delete(key) ==
  /\ Len(got) < MaxOps
  /\ cache' = MapDelete(cache, key)
  /\ got' = Append(got, Logged("delete", key, NULL, 0))
  /\ UNCHANGED <<facilitatorVars, auditVars, gate, quotes, stats>>

\* clear()
Clear ==
  /\ Len(got) < MaxOps
  /\ cache' = <<>>
  /\ got' = Append(got, Logged("clear", "", NULL, 0))
  /\ UNCHANGED <<facilitatorVars, auditVars, gate, quotes, stats>>

\* cleanExpired(), run by the five-minute timer; a sweep that finds
\* nothing expired changes nothing.
CleanExpired ==
  /\ cache' = SelectSeq(cache, LAMBDA en : ~Expired(en, now))
  /\ cache' /= cache
  /\ UNCHANGED <<facilitatorVars, auditVars, gate, quotes, stats, got>>

\* The callers of the cache: two of the cacheKeys, two values, an explicit
\* time to live of one second or none.
CacheKeys == {"blockchain:gasPrice", "blockchain:blockNumber"}
CacheValues == {"v1", "v2"}
Ttls == {Undefined, 1000}

QuotedTypes == IntentTypes
FeePrices == {5}

HelpersIdle ==
  /\ quotes = [t \in QuotedTypes |-> NoQuote]
  /\ cache = <<>>
  /\ stats = [hits |-> 0, misses |-> 0]
  /\ got = <<>>

Init ==
  /\ usedNonces = {}
  /\ userTracking = <<>>
  /\ now = StartTime
  /\ calls = [c \in Calls |-> IdleFrame]
  /\ AuditIdle
  /\ GateIdle
  /\ HelpersIdle

\* The facilitator after it has served UserKey one of the histories.
InitFrom(histories) ==
  /\ \E history \in histories :
       /\ userTracking = [k \in {UserKey} |-> [transactions |-> history]]
       /\ usedNonces = {NonceKey(WarmNonceBase + i) : i \in 1..Len(history)}
  /\ now = StartTime
  /\ calls = [c \in Calls |-> IdleFrame]
  /\ AuditIdle
  /\ GateIdle
  /\ HelpersIdle

InitWarm == InitFrom(WarmHistories)
InitSpend == InitFrom(SpendHistories)
InitMix == InitFrom(WarmHistories \cup SpendHistories)
InitFull == InitFrom(FullHistories)
InitCase == InitFrom(CaseHistories)

NextOn(workload, costs) ==
  \/ \E c \in Calls, req \in workload : Call(c, req)
  \/ \E c \in Calls : AfterValidate(c)
  \/ \E c \in Calls : TxSent(c)
  \/ \E c \in Calls : DispatchFails(c)
  \/ \E c \in Calls, g \in costs : Confirmed(c, g)
  \/ \E c \in Calls : WaitFails(c)
  \/ \E c \in Calls : Finish(c)
  \/ Tick

Next == NextOn(Requests, GasCosts)
NextSig == NextOn(SigRequests, GasCosts)
NextGate == NextOn(GateRequests, GasCosts)
NextRate == NextOn(RateRequests, GasCosts)
NextSpend == NextOn(RateRequests, SpendCosts)
NextMix == NextOn(MixRequests, GasCosts)
NextCase == NextOn(CaseRequests, GasCosts)

Spec == Init /\ [][Next]_vars
SpecSig == Init /\ [][NextSig]_vars
SpecGate == Init /\ [][NextGate]_vars
SpecWarm == InitWarm /\ [][NextRate]_vars
SpecSpend == InitSpend /\ [][NextSpend]_vars
SpecMix == InitMix /\ [][NextMix]_vars
SpecFull == InitFull /\ [][NextRate]_vars
SpecCase == InitCase /\ [][NextCase]_vars

NextAudit ==
  \/ \E m \in 0..MaxRetriesRange : GenerateWithAudit("ERC20 token", m)
  \/ \E r \in Responses : AttemptStarts(r)
  \/ LoopExits
  \/ Chunk
  \/ StreamFails
  \/ StreamEnds
  \/ \E report \in Reports : AuditReturns(report)
  \/ AuditFails

SpecAudit == Init /\ [][NextAudit]_vars

\* The consumer keeps pulling the generator it started, every stream ends
\* or fails and every audit call settles.
LoopStep ==
  \/ \E r \in Responses : AttemptStarts(r)
  \/ LoopExits
  \/ Chunk
  \/ StreamFails
  \/ StreamEnds
  \/ \E report \in Reports : AuditReturns(report)
  \/ AuditFails

SpecAuditLive == SpecAudit /\ WF_vars(LoopStep)

NextX402 ==
  \/ \E r \in Exchanges, header \in Headers : Enters(r, header)
  \/ \E r \in Exchanges : Verified(r)
  \/ \E r \in Exchanges : NextReturns(r)
  \/ \E r \in Exchanges : NextThrows(r)

SpecX402 == Init /\ [][NextX402]_vars

\* The UI asks for estimates while intents of one user are executed.
NextGas ==
  \/ \E t \in QuotedTypes, p \in FeePrices :
       EstimateGas(CreateIntent(t, 1, FutureDeadline, Undefined), p)
  \/ \E t \in QuotedTypes :
       EstimateGasFails(CreateIntent(t, 1, FutureDeadline, Undefined))
  \/ NextOn({Signed(BaseIntent, "0xAB")}, GasCosts)

SpecGas == Init /\ [][NextGas]_vars

NextCache ==
  \/ \E key \in CacheKeys, value \in CacheValues, ttl \in Ttls : Set(key, value, ttl)
  \/ \E key \in CacheKeys : Get(key)
  \/ \E key \in CacheKeys : Delete(key)
  \/ Clear
  \/ CleanExpired
  \/ Tick

SpecCache == Init /\ [][NextCache]_vars

\* A user near the rate caps sends transfers, one of them badly signed.
NextRetry ==
  NextOn(RateRequests
           \cup {Request("request", BaseIntent, RawSignature(MalformedRaw), "0xAB")},
         GasCosts)

SpecRetry == InitWarm /\ [][NextRetry]_vars

\* A ledger that holds HistoryCap records already, the last of them leaving
\* one slot in the minute window.
CappedHistory ==
  Spread(HistoryCap - (MaxTxPerMinute - 1),
         StartTime - HistoryCap * 15 * MinuteMs, 15 * MinuteMs)
    \o Spread(MaxTxPerMinute - 1, StartTime - 4000, 1000)

InitCapped == InitFrom({CappedHistory})

NextCapped == NextOn(RateRequests, GasCosts)

SpecCapped == InitCapped /\ [][NextCapped]_vars

\* The signer of a ledger near the rate caps sends transfers without a
\* userAddress, and one with it.
AnonRequests ==
  {Signed(CreateIntent("transfer", n, FutureDeadline, Undefined), NULL) :
     n \in Nonces}
  \cup {Signed(BaseIntent, "0xAB")}

NextAnon == NextOn(AnonRequests, GasCosts)

SpecAnon == InitWarm /\ [][NextAnon]_vars

(***************************************************************************)
(* Vocabulary of the properties.                                           *)
(***************************************************************************)
Range(seq) == {seq[i] : i \in 1..Len(seq)}

\* The frame has not run validatePolicy yet.
BeforeValidation(frame) == frame.pc = "idle"

\* validatePolicy threw for the frame, with these violations.
PolicyRejected(frame) == frame.pc = "failed" /\ frame.error = "Policy violation"

\* The step runs validatePolicy for call c.
ValidatesIn(c) == BeforeValidation(calls[c]) /\ ~BeforeValidation(calls'[c])
                  /\ calls'[c].error /= "Invalid intent signature"

\* The switch of executeUserIntent invoked a dispatch action for the frame.
Dispatched(frame) == frame.action \in DispatchActions

\* Records of the list that are less than `seconds` old, counted from the
\* timestamps alone.
YoungerThan(txs, seconds) ==
  Cardinality({i \in 1..Len(txs) : now - txs[i].timestamp < seconds * 1000})

(***************************************************************************)
(* C1  Replay invariant: once an executeUserIntent call that used nonce n  *)
(* has succeeded, every later call carrying n is rejected with a policy    *)
(* violation that includes the nonce-reuse message, whatever its type and  *)
(* user address.  Stated on the step in which the later call is validated. *)
(* The code breaks it for n = 0, which trackNonce never records.           *)
(***************************************************************************)
C1_ReplayRejected ==
  [][\A c, d \in Calls :
       (/\ c /= d
        /\ calls[c].pc = "done"
        /\ ValidatesIn(d)
        /\ calls'[d].intent.nonce = calls[c].intent.nonce)
       => (PolicyRejected(calls'[d]) /\ ReplayMsg \in Range(calls'[d].violations))]_vars

(***************************************************************************)
(* C2  Of the calls in flight that carry the same nonce, at most one       *)
(* passes validation and reaches a dispatch action.  Stated for the nonces *)
(* the replay rule does track (n /= 0), so that what breaks it is the      *)
(* interleaving alone: validatePolicy and trackNonce are separated by an   *)
(* await.                                                                  *)
(***************************************************************************)
C2_OneDispatchPerNonce ==
  \A c, d \in Calls :
    (/\ c /= d
     /\ calls[c].intent.nonce = calls[d].intent.nonce
     /\ calls[c].intent.nonce /= 0)
    => ~(Dispatched(calls[c]) /\ Dispatched(calls[d]))

(***************************************************************************)
(* C3  The rate-window check is atomic with the commit: the number of a    *)
(* user's recorded transactions inside the last minute, hour or day never  *)
(* exceeds maxTxPerMinute, maxTxPerHour or maxTxPerDay.  Two calls of the  *)
(* same user that are validated before either is recorded break it.        *)
(***************************************************************************)
C3_WindowsNeverExceeded ==
  \A k \in DOMAIN userTracking :
    /\ YoungerThan(userTracking[k].transactions, 60) <= MaxTxPerMinute
    /\ YoungerThan(userTracking[k].transactions, 60 * 60) <= MaxTxPerHour
    /\ YoungerThan(userTracking[k].transactions, 24 * 60 * 60) <= MaxTxPerDay

(***************************************************************************)
(* C4  Signature binding: an intent presented with a signature that was    *)
(* produced over another nonce or another deadline fails verification:     *)
(* the call aborts with the invalid-signature error and is never           *)
(* dispatched.  verifyIntentSignature discards the recovered address and   *)
(* accepts every well-formed signature.                                    *)
(***************************************************************************)
C4_AlteredIntentRejected ==
  \A c \in Calls :
    (/\ calls[c].signature.raw = WellFormedRaw
     /\ \/ calls[c].signature.message.nonce /= calls[c].intent.nonce
        \/ calls[c].signature.message.deadline /= calls[c].intent.deadline)
    => (/\ calls[c].pc = "failed"
        /\ calls[c].error = "Invalid intent signature"
        /\ ~Dispatched(calls[c]))

(***************************************************************************)
(* C5  Every intent that reaches a dispatch action either passed           *)
(* verifyIntentSignature or came from an operation explicitly flagged as   *)
(* internal.  The flag of the code is the text of the signature argument,  *)
(* which a client's request carries like any other signature.              *)
(***************************************************************************)
C5_VerifiedOrInternal ==
  \A c \in Calls :
    Dispatched(calls[c]) => (calls[c].isValid \/ calls[c].origin = "internal")

(***************************************************************************)
(* C6  A call whose signature is no auto-operation marker and fails        *)
(* verifyIntentSignature aborts with the invalid-signature error before    *)
(* policy validation runs: no violations are computed, no user entry is    *)
(* created, no nonce is committed, no dispatch action is invoked, no       *)
(* record is written, and the frame takes no further step.                 *)
(***************************************************************************)
C6_InvalidSignatureAborts ==
  [][\A c \in Calls :
       /\ (/\ calls[c].pc = "idle"
           /\ calls'[c].pc /= "idle"
           /\ ~IsAutoOp(calls'[c].signature)
           /\ ~VerifyIntentSignature(calls'[c].intent, calls'[c].signature))
          => (/\ calls'[c].pc = "failed"
              /\ calls'[c].error = "Invalid intent signature"
              /\ calls'[c].violations = <<>>
              /\ calls'[c].action = "none"
              /\ usedNonces' = usedNonces
              /\ userTracking' = userTracking)
       /\ calls[c].error = "Invalid intent signature" => calls'[c] = calls[c]]_vars

C6_Witness ==
  \E c \in Calls :
    /\ calls[c].pc = "failed"
    /\ calls[c].error = "Invalid intent signature"
    /\ calls[c].signature.raw = MalformedRaw
    /\ NonceKey(calls[c].intent.nonce) \notin usedNonces
    /\ userTracking = <<>>

(***************************************************************************)
(* C7  Window correctness: a user with exactly maxTxPerMinute records      *)
(* timestamped within the last 60 seconds has the next intent rejected     *)
(* with the per-minute rate violation; with one of those records aged to   *)
(* 61 seconds, and nothing else in the way, the next intent is accepted.   *)
(***************************************************************************)
\* No rule other than the per-minute rate stands in the intent's way.
OtherRulesPass(intent, txs) ==
  /\ intent.deadline >= now \div 1000
  /\ NonceKey(intent.nonce) \notin usedNonces
  /\ intent.type = "transfer"
  /\ YoungerThan(txs, 60 * 60) < MaxTxPerHour
  /\ YoungerThan(txs, 24 * 60 * 60) < MaxTxPerDay
  /\ SpentWithin(txs, now, HourMs) < MaxSpendPerHour
  /\ SpentWithin(txs, now, DayMs) < MaxSpendPerDay

\* maxTxPerMinute records fall in the last 62 seconds, one of them 61
\* seconds old and the others less than 60.
OneAgedOut(txs) ==
  /\ YoungerThan(txs, 62) = MaxTxPerMinute
  /\ YoungerThan(txs, 60) = MaxTxPerMinute - 1
  /\ \E i \in 1..Len(txs) : now - txs[i].timestamp = 61 * 1000

C7_WindowCorrectness ==
  [][\A c \in Calls :
       (ValidatesIn(c) /\ calls'[c].userAddress /= NULL)
       => LET txs == Transactions(userTracking, calls'[c].userAddress)
          IN  /\ YoungerThan(txs, 60) = MaxTxPerMinute
                 => (/\ PolicyRejected(calls'[c])
                     /\ RateMinuteMsg \in Range(calls'[c].violations))
              /\ (OneAgedOut(txs) /\ OtherRulesPass(calls'[c].intent, txs))
                 => calls'[c].pc = "awaitValidate"]_vars

C7_Witness ==
  \E c, d \in Calls :
    /\ PolicyRejected(calls[c])
    /\ calls[c].violations = <<RateMinuteMsg>>
    /\ calls[d].pc = "awaitValidate"
    /\ OneAgedOut(Transactions(userTracking, calls[d].userAddress))

(***************************************************************************)
(* C8  The three rate windows are evaluated independently: whenever the    *)
(* count of the user's records inside one window meets or exceeds that     *)
(* window's cap the intent is rejected, whatever the other two windows     *)
(* hold, and every exceeded window contributes its own violation.          *)
(***************************************************************************)
C8_WindowsIndependent ==
  [][\A c \in Calls :
       (ValidatesIn(c) /\ calls'[c].userAddress /= NULL)
       => LET txs == Transactions(userTracking, calls'[c].userAddress)
              reported == Range(calls'[c].violations)
          IN  /\ YoungerThan(txs, 60) >= MaxTxPerMinute
                 => (PolicyRejected(calls'[c]) /\ RateMinuteMsg \in reported)
              /\ YoungerThan(txs, 60 * 60) >= MaxTxPerHour
                 => (PolicyRejected(calls'[c]) /\ RateHourMsg \in reported)
              /\ YoungerThan(txs, 24 * 60 * 60) >= MaxTxPerDay
                 => (PolicyRejected(calls'[c]) /\ RateDayMsg \in reported)]_vars

\* Rejected for the hour window alone: the other two are below their caps.
C8_Witness ==
  \E c \in Calls :
    /\ PolicyRejected(calls[c])
    /\ calls[c].violations = <<RateHourMsg>>
    /\ LET txs == Transactions(userTracking, calls[c].userAddress)
       IN  /\ YoungerThan(txs, 60) < MaxTxPerMinute
           /\ YoungerThan(txs, 60 * 60) >= MaxTxPerHour
           /\ YoungerThan(txs, 24 * 60 * 60) < MaxTxPerDay

(***************************************************************************)
(* C9  Deadline rule: every intent whose deadline is earlier than the      *)
(* current time in unix seconds at validation gets the deadline violation  *)
(* and is not dispatched, for every deadline value, 0 included.  The rule  *)
(* of the code is guarded by the truthiness of the deadline and lets 0     *)
(* pass.                                                                   *)
(***************************************************************************)
C9_ExpiredRejected ==
  [][\A c \in Calls :
       (ValidatesIn(c) /\ calls'[c].intent.deadline < now \div 1000)
       => (/\ PolicyRejected(calls'[c])
           /\ DeadlineMsg \in Range(calls'[c].violations))]_vars

(***************************************************************************)
(* C10 Audit gate: with requireAudit, every deploy_contract intent whose   *)
(* attached auditScore is in 0..minAuditScore-1 gets the audit-threshold   *)
(* violation and is not dispatched.  The rule of the code is guarded by    *)
(* the truthiness of the score and lets 0 pass.                            *)
(***************************************************************************)
C10_LowScoreRejected ==
  [][\A c \in Calls :
       (/\ ValidatesIn(c)
        /\ calls'[c].intent.type = "deploy_contract"
        /\ RequireAudit
        /\ calls'[c].intent.data.auditScore \in 0..(MinAuditScore - 1))
       => (/\ PolicyRejected(calls'[c])
           /\ AuditMsg(calls'[c].intent.data.auditScore)
                \in Range(calls'[c].violations))]_vars

(***************************************************************************)
(* C11 validatePolicy does not short-circuit: every rule the intent breaks *)
(* (deadline, replay, type allow-list, each rate window, each spend        *)
(* window, contract restriction, audit gate) has its entry in the          *)
(* violation list, and the error executeUserIntent throws carries the      *)
(* whole list joined, never the first violation alone.  Deadlines, nonces  *)
(* and scores are taken different from 0 here: what the rules do with 0 is *)
(* the subject of C1, C9 and C10.                                          *)
(***************************************************************************)
\* The message of a rule, when the intent breaks it.
IfBroken(cond, msg) == IF cond THEN {msg} ELSE {}

\* The messages of the rules the intent breaks, each rule judged from the
\* state on its own.
Broken(intent, userAddress) ==
  LET txs == Transactions(userTracking, userAddress)
  IN  IfBroken(intent.deadline /= 0 /\ intent.deadline < now \div 1000,
               DeadlineMsg)
      \cup IfBroken(intent.nonce /= 0 /\ NonceKey(intent.nonce) \in usedNonces,
                    ReplayMsg)
      \cup IfBroken(intent.type \notin AllowedIntentTypes, TypeMsg(intent.type))
      \cup IfBroken(YoungerThan(txs, 60) >= MaxTxPerMinute, RateMinuteMsg)
      \cup IfBroken(YoungerThan(txs, 60 * 60) >= MaxTxPerHour, RateHourMsg)
      \cup IfBroken(YoungerThan(txs, 24 * 60 * 60) >= MaxTxPerDay, RateDayMsg)
      \cup IfBroken(SpentWithin(txs, now, HourMs) >= MaxSpendPerHour,
                    SpendHourMsg)
      \cup IfBroken(SpentWithin(txs, now, DayMs) >= MaxSpendPerDay, SpendDayMsg)
      \cup IfBroken(intent.type = "call_contract"
                    /\ ToLowerCase(intent.data.contract)
                         \in {ToLowerCase(d) : d \in DeniedContracts},
                    DeniedMsg)
      \cup IfBroken(intent.type = "deploy_contract" /\ RequireAudit
                    /\ intent.data.auditScore \in 1..(MinAuditScore - 1),
                    AuditMsg(intent.data.auditScore))

C12_ViolationStopsBeforeChain ==
  [][\A c \in Calls :
       /\ (/\ ValidatesIn(c)
           /\ ValidatePolicy(calls'[c].intent, calls'[c].userAddress,
                             userTracking, usedNonces, now) /= <<>>)
          => (/\ PolicyRejected(calls'[c])
              /\ ~Dispatched(calls'[c])
              /\ usedNonces' = usedNonces)
       /\ PolicyRejected(calls[c]) => calls'[c] = calls[c]]_vars

\* One call was stopped by the policy before any dispatch; another, which
\* broke no rule, went through dispatch and confirmation.
C12_Witness ==
  \E c, d \in Calls :
    /\ PolicyRejected(calls[c])
    /\ ~Dispatched(calls[c])
    /\ calls[d].pc = "done"
    /\ Dispatched(calls[d])

(***************************************************************************)
(* C13 Nonce burn on failure: when an intent has passed validation and its *)
(* dispatch or its confirmation fails, executeUserIntent throws an         *)
(* execution failure and the nonce of the intent is in usedNonces from     *)
(* then on, so that a later call with the same nonce is rejected as a      *)
(* replay.  trackNonce skips nonce 0: an intent with nonce 0 that failed   *)
(* on chain burns nothing and is accepted again.                           *)
(***************************************************************************)
\* The frame passed validation and failed in dispatch or in confirmation.
ExecutionFailed(frame) ==
  /\ frame.pc = "failed"
  /\ frame.error \in {"Contract bytecode is required", "submission failed",
                      "transaction reverted"}

C13_NonceBurned ==
  [][\A c \in Calls :
       /\ ExecutionFailed(calls'[c])
          => NonceKey(calls'[c].intent.nonce) \in usedNonces'
       /\ \A d \in Calls :
            (/\ ExecutionFailed(calls[c])
             /\ ValidatesIn(d)
             /\ calls'[d].intent.nonce = calls[c].intent.nonce)
            => (/\ PolicyRejected(calls'[d])
                /\ ReplayMsg \in Range(calls'[d].violations))]_vars

(***************************************************************************)
(* C14 A replayed intent, one that carries the nonce of an earlier         *)
(* successful call, is rejected and leaves the ledger unchanged: every     *)
(* user's transaction list after the validation of the replay is the list  *)
(* before it, and the rejected frame never records anything.  An intent    *)
(* with nonce 0 is accepted again and goes on to be recorded a second      *)
(* time.                                                                   *)
(***************************************************************************)
\* The transaction lists of all users, entries created lazily left aside.
Ledger(tracking) ==
  [k \in {j \in DOMAIN tracking : tracking[j].transactions /= <<>>} |->
     tracking[k].transactions]

C14_ReplayLeavesLedger ==
  [][\A c, d \in Calls :
       (/\ c /= d
        /\ calls[c].pc = "done"
        /\ ValidatesIn(d)
        /\ calls'[d].intent = calls[c].intent)
       => (/\ PolicyRejected(calls'[d])
           /\ ReplayMsg \in Range(calls'[d].violations)
           /\ Ledger(userTracking') = Ledger(userTracking))]_vars

(***************************************************************************)
(* C15 Remaining-quota snapshot: the txRemaining a successful call returns *)
(* is computed after recordTransaction.  For each window it is the cap     *)
(* minus the number of the user's records inside the window, the record of *)
(* the transaction just confirmed among them; for a user whose ledger was  *)
(* empty, one successful call returns perMinute = maxTxPerMinute - 1.      *)
(* The facilitator starts with no ledger here, so the records of a user    *)
(* are those of the calls confirmed for that user so far.                  *)
(***************************************************************************)
C15_QuotaAfterRecord ==
  [][\A c \in Calls :
       (/\ calls[c].pc = "awaitSpend"
        /\ calls'[c].pc = "done"
        /\ calls[c].userAddress /= NULL)
       => LET txs == Transactions(userTracking, calls[c].userAddress)
              confirmed ==
                {d \in Calls :
                   /\ calls'[d].pc \in {"awaitSpend", "done"}
                   /\ calls'[d].userAddress /= NULL
                   /\ ToLowerCase(calls'[d].userAddress)
                        = ToLowerCase(calls[c].userAddress)}
              quota == calls'[c].policyInfo
          IN  /\ c \in confirmed
              /\ Len(txs) = Cardinality(confirmed)
              /\ quota.perMinute = MaxTxPerMinute - YoungerThan(txs, 60)
              /\ quota.perHour = MaxTxPerHour - YoungerThan(txs, 60 * 60)
              /\ quota.perDay = MaxTxPerDay - YoungerThan(txs, 24 * 60 * 60)
              /\ quota.perMinute = MaxTxPerMinute - Cardinality(confirmed)]_vars

\* The only call made for the user so far succeeded and reports one
\* transaction less than the cap.
C15_Witness ==
  \E c \in Calls :
    /\ calls[c].pc = "done"
    /\ calls[c].userAddress = "0xAB"
    /\ Len(Transactions(userTracking, "0xAB")) = 1
    /\ calls[c].policyInfo.perMinute = MaxTxPerMinute - 1

(***************************************************************************)
(* C16 Spend reporting: getRemainingSpend right after recordTransaction    *)
(* recorded a transaction of cost c is, for the hour and for the day, what *)
(* getRemainingSpend returned right before, minus c, up to the rounding of *)
(* the report (one unit of its last digit).                                *)
(***************************************************************************)
Distance(a, b) == IF a >= b THEN a - b ELSE b - a

C16_SpendReportFollowsCost ==
  [][\A c \in Calls :
       (/\ calls[c].pc = "awaitWait"
        /\ calls'[c].pc = "awaitSpend"
        /\ calls[c].userAddress /= NULL)
       => LET before == GetRemainingSpend(userTracking, calls[c].userAddress, now)
              after == GetRemainingSpend(userTracking', calls[c].userAddress, now')
              cost == calls'[c].cost
          IN  /\ cost > 0
              /\ Distance(after.hourly, before.hourly - cost) <= ReportUnit
              /\ Distance(after.daily, before.daily - cost) <= ReportUnit
              /\ calls'[c].policyInfo.hourly = after.hourly
              /\ calls'[c].policyInfo.daily = after.daily]_vars

\* A transaction costing more than the rounding of the report was recorded
\* for a user with earlier spend, and the remaining spend went down.
C16_Witness ==
  \E c \in Calls :
    /\ calls[c].pc = "awaitSpend"
    /\ calls[c].userAddress /= NULL
    /\ calls[c].cost > ReportUnit
    /\ Len(Transactions(userTracking, calls[c].userAddress)) > 1
    /\ calls[c].policyInfo.hourly < MaxSpendPerHour - ReportUnit

(***************************************************************************)
(* C17 Spend limiting: validatePolicy rejects a user's intent whenever the *)
(* gasSpent of the user's records of the last hour adds up to              *)
(* maxSpendPerHour or more, or that of the last day to maxSpendPerDay or   *)
(* more.  The sums are of recorded spend alone: an intent of a user whose  *)
(* sums are below the caps, by however little, passes the spend rules      *)
(* whatever its own transaction will cost.                                 *)
(***************************************************************************)
RECURSIVE SpentSince(_, _)
\* The gasSpent of the records of the list timestamped after `since`.
SpentSince(txs, since) ==
  IF txs = <<>> THEN 0
  ELSE (IF Head(txs).timestamp > since THEN Head(txs).gasSpent ELSE 0)
       + SpentSince(Tail(txs), since)

C17_SpendCapsEnforced ==
  [][\A c \in Calls :
       (ValidatesIn(c) /\ calls'[c].userAddress /= NULL)
       => LET txs == Transactions(userTracking, calls'[c].userAddress)
              hour == SpentSince(txs, now - 60 * 60 * 1000)
              day == SpentSince(txs, now - 24 * 60 * 60 * 1000)
              reported == Range(calls'[c].violations)
          IN  /\ hour >= MaxSpendPerHour
                 => (PolicyRejected(calls'[c]) /\ SpendHourMsg \in reported)
              /\ day >= MaxSpendPerDay
                 => (PolicyRejected(calls'[c]) /\ SpendDayMsg \in reported)
              /\ hour < MaxSpendPerHour => SpendHourMsg \notin reported
              /\ day < MaxSpendPerDay => SpendDayMsg \notin reported]_vars

\* One call was accepted below the hourly cap and its own cost took the
\* spend to the cap; the next call was rejected for the spend of exactly
\* the cap.
C17_Witness ==
  \E c, d \in Calls :
    /\ calls[d].pc = "done"
    /\ calls[d].userAddress = calls[c].userAddress
    /\ PolicyRejected(calls[c])
    /\ calls[c].violations = <<SpendHourMsg>>
    /\ LET hour == SpentSince(Transactions(userTracking, calls[c].userAddress),
                              now - 60 * 60 * 1000)
       IN  /\ hour = MaxSpendPerHour
           /\ hour - calls[d].cost < MaxSpendPerHour

(***************************************************************************)
(* C18 A transaction record is appended to a user's ledger only by         *)
(* executeUserIntent and only after tx.wait() returned the receipt of that *)
(* intent's transaction: a step changes a ledger only by appending one     *)
(* record for the user of a call that the step takes from the wait to      *)
(* success.  Calls that fail at signature verification, policy             *)
(* validation, dispatch or confirmation append nothing.                    *)
(***************************************************************************)
C18_RecordOnlyAfterReceipt ==
  [][/\ Ledger(userTracking') /= Ledger(userTracking)
        => \E c \in Calls :
             /\ calls[c].pc = "awaitWait"
             /\ calls'[c].pc = "awaitSpend"
             /\ calls[c].userAddress /= NULL
             /\ LET key == ToLowerCase(calls[c].userAddress)
                    txs == Transactions(userTracking, key)
                    txs2 == Transactions(userTracking', key)
                IN  /\ Len(txs2) = Len(txs) + 1
                    /\ SubSeq(txs2, 1, Len(txs)) = txs
                    /\ txs2[Len(txs2)].type = calls[c].intent.type
                    /\ \A k \in DOMAIN userTracking :
                         k /= key => userTracking'[k] = userTracking[k]
     /\ \A c \in Calls :
          /\ (calls[c].pc /= "failed" /\ calls'[c].pc = "failed")
             => Ledger(userTracking') = Ledger(userTracking)
          /\ calls[c].pc = "failed" => calls'[c] = calls[c]]_vars

\* One call failed on chain after it had passed validation, another was
\* confirmed: the ledger holds the record of the confirmed one alone.
C18_Witness ==
  \E c, d \in Calls :
    /\ calls[c].pc = "done"
    /\ calls[d].pc = "failed"
    /\ calls[d].error \in {"submission failed", "transaction reverted"}
    /\ calls[d].userAddress = calls[c].userAddress
    /\ Len(Transactions(userTracking, calls[c].userAddress)) = 1

(***************************************************************************)
(* C19 Bounded history: a user's transaction list never holds more than    *)
(* 1000 records, and a record written to a list that holds 1000 pushes the *)
(* oldest one out: the list keeps the 1000 most recently recorded          *)
(* transactions, in the order they were recorded.                          *)
(***************************************************************************)
C19_HistoryBounded ==
  [][/\ \A k \in DOMAIN userTracking :
          /\ Len(userTracking[k].transactions) <= 1000
          /\ Len(userTracking'[k].transactions) <= 1000
     /\ \A c \in Calls :
          (/\ calls[c].pc = "awaitWait"
           /\ calls'[c].pc = "awaitSpend"
           /\ calls[c].userAddress /= NULL)
          => LET txs == Transactions(userTracking, calls[c].userAddress)
                 txs2 == Transactions(userTracking', calls[c].userAddress)
                 last == txs2[Len(txs2)]
             IN  /\ Len(txs2) = IF Len(txs) < 1000 THEN Len(txs) + 1 ELSE 1000
                 /\ last.timestamp = now
                 /\ last.gasSpent = calls'[c].cost
                 /\ SubSeq(txs2, 1, Len(txs2) - 1)
                      = IF Len(txs) < 1000 THEN txs ELSE Tail(txs)]_vars

\* Two transactions were recorded on a list of 1000: the list holds 1000
\* records, the two new ones last, and its two oldest records are gone.
C19_Witness ==
  \E k \in DOMAIN userTracking :
    LET txs == userTracking[k].transactions
    IN  /\ Len(txs) = 1000
        /\ txs[999].timestamp >= StartTime
        /\ txs[1000].timestamp >= StartTime
        /\ txs[1].timestamp = StartTime - 998 * 15 * MinuteMs

(***************************************************************************)
(* C20 The policy state is keyed case-insensitively: two addresses that    *)
(* differ only in letter case share one ledger.  What was recorded under   *)
(* either spelling counts toward the rate and spend windows of an intent   *)
(* sent under the other and toward the remaining quota reported to it, and *)
(* the map never holds an entry for each spelling.                         *)
(***************************************************************************)
\* Two spellings of one address.
Spellings == {"0xAB", "0xab"}

\* The records kept under any of the spellings, from the map as it is.
RecordsOf(tracking) ==
  {tracking[k].transactions : k \in Spellings \cap DOMAIN tracking}

RECURSIVE SharedCount(_, _)
SharedCount(lists, seconds) ==
  IF lists = {} THEN 0
  ELSE LET txs == CHOOSE l \in lists : TRUE
       IN  YoungerThan(txs, seconds) + SharedCount(lists \ {txs}, seconds)

RECURSIVE SharedSpent(_, _)
SharedSpent(lists, since) ==
  IF lists = {} THEN 0
  ELSE LET txs == CHOOSE l \in lists : TRUE
       IN  SpentSince(txs, since) + SharedSpent(lists \ {txs}, since)

C20_SpellingsShareLedger ==
  [][/\ Cardinality(Spellings \cap DOMAIN userTracking') <= 1
     /\ \A c \in Calls :
          /\ (ValidatesIn(c) /\ calls'[c].userAddress \in Spellings)
             => LET lists == RecordsOf(userTracking)
                    reported == Range(calls'[c].violations)
                IN  /\ SharedCount(lists, 60) >= MaxTxPerMinute
                       => RateMinuteMsg \in reported
                    /\ SharedSpent(lists, now - 60 * 60 * 1000) >= MaxSpendPerHour
                       => SpendHourMsg \in reported
          /\ (/\ calls[c].pc = "awaitWait"
              /\ calls'[c].pc = "awaitSpend"
              /\ calls[c].userAddress \in Spellings)
             => Distance(calls'[c].policyInfo.hourly,
                         MaxSpendPerHour
                           - SharedSpent(RecordsOf(userTracking'),
                                         now - 60 * 60 * 1000)) <= ReportUnit
          /\ (/\ calls[c].pc = "awaitSpend"
              /\ calls'[c].pc = "done"
              /\ calls[c].userAddress \in Spellings)
             => calls'[c].policyInfo.perMinute
                  = MaxTxPerMinute - SharedCount(RecordsOf(userTracking), 60)]_vars

\* A transaction confirmed for "0xAB" filled the minute window, and the
\* intent sent next under "0xab" was rejected for it.
C20_Witness ==
  \E c, d \in Calls :
    /\ calls[c].userAddress = "0xAB"
    /\ calls[c].pc = "done"
    /\ calls[c].policyInfo.perMinute = 0
    /\ calls[d].userAddress = "0xab"
    /\ PolicyRejected(calls[d])
    /\ calls[d].violations = <<RateMinuteMsg>>

C22_ValidationReadsOnly ==
  [][\A c \in Calls :
       ValidatesIn(c) => (/\ usedNonces' = usedNonces
                          /\ userTracking' = userTracking)]_vars

(***************************************************************************)
(* Vocabulary of the audit loop's properties.                              *)
(***************************************************************************)
Terminated == loop.pc \in {"returned", "thrown"}
EventsOfType(type) == SelectSeq(events, LAMBDA ev : ev.type = type)
Verdicts == SelectSeq(events, LAMBDA ev : ev.type \in {"success", "failed"})
LastEvent == events[Len(events)]

(***************************************************************************)
(* C23 Audit loop termination: for maxRetries >= 1, under every behaviour  *)
(* of the generator and the auditor, generateWithAudit terminates after    *)
(* yielding at most maxRetries 'attempt' events, and its final event is    *)
(* exactly one of 'success' or 'failed', never both in one run.            *)
(*                                                                         *)
(* As stated: a run that is over ends with 'success' or 'failed'.  It is   *)
(* refuted by a run whose last attempt throws.                             *)
(***************************************************************************)
C23_EndsInSuccessOrFailed ==
  (loop.maxRetries >= 1 /\ Terminated)
    => /\ Len(EventsOfType("attempt")) <= loop.maxRetries
       /\ events /= <<>>
       /\ LastEvent.type \in {"success", "failed"}
       /\ Len(Verdicts) = 1

\* As the code has it: the run terminates; it yields at most maxRetries
\* 'attempt' events and at most one of 'success' and 'failed'; a generator
\* that returns ends with that one event, and a generator that throws ends
\* with the 'error' event of attempt maxRetries and has yielded neither.
C23_Terminates ==
  /\ [](loop.maxRetries >= 1
          => /\ Len(EventsOfType("attempt")) <= loop.maxRetries
             /\ Len(Verdicts) <= 1
             /\ loop.pc = "returned"
                  => /\ Len(Verdicts) = 1
                     /\ LastEvent.type \in {"success", "failed"}
             /\ loop.pc = "thrown"
                  => /\ Len(Verdicts) = 0
                     /\ LastEvent.type = "error"
                     /\ LastEvent.attempt = loop.maxRetries)
  /\ ((loop.pc /= "idle") ~> Terminated)

\* A run of three attempts is over: two were retried and the third failed.
C23_Witness ==
  /\ loop.pc = "returned"
  /\ loop.maxRetries = 3
  /\ Len(EventsOfType("attempt")) = 3
  /\ LastEvent.type = "failed"

(***************************************************************************)
(* C24 When all attempts are exhausted without a passing score, the        *)
(* 'failed' event carries the code and audit report of the best-scoring    *)
(* attempt among all audited attempts of the run.                          *)
(* The code yields the last attempt's generatedCode and auditResult; no    *)
(* best attempt is kept.                                                   *)
(***************************************************************************)
AuditedAt == {i \in 1..Len(events) : events[i].type = "audit_complete"}

C24_FailedCarriesBest ==
  (events /= <<>> /\ LastEvent.type = "failed")
    => \E i \in AuditedAt :
         /\ \A j \in AuditedAt : events[j].score <= events[i].score
         /\ LastEvent.score = events[i].score
         /\ LastEvent.report = events[i].report
         /\ LastEvent.code = events[i - 2].code

(***************************************************************************)
(* C25 Any error raised during an attempt (generation failure, extraction  *)
(* failure, auditor failure) is yielded as an 'error' event for that       *)
(* attempt; if the attempt is the final allowed one the error is then      *)
(* re-raised to the caller, otherwise the loop continues with the next     *)
(* attempt.                                                                *)
(* An attempt raises an error in a step that leaves the stream without     *)
(* reaching the audit call, or leaves the audit call without a result.     *)
(***************************************************************************)
Raises ==
  \/ loop.pc = "awaitChunk" /\ loop'.pc \notin {"awaitChunk", "awaitAudit"}
  \/ /\ loop.pc = "awaitAudit"
     /\ loop'.pc /= "awaitAudit"
     /\ \A i \in (Len(events) + 1)..Len(events') :
          events'[i].type /= "audit_complete"

C25_ErrorsAreYielded ==
  [][Raises =>
       /\ Len(events') = Len(events) + 1
       /\ SubSeq(events', 1, Len(events)) = events
       /\ events'[Len(events')].type = "error"
       /\ events'[Len(events')].attempt = loop.attempt
       /\ IF loop.attempt >= loop.maxRetries
            THEN loop'.pc = "thrown"
            ELSE /\ loop'.pc = "loopTop"
                 /\ loop'.attempt = loop.attempt + 1
                 /\ loop'.attempt <= loop'.maxRetries]_vars

\* The first attempt failed and the loop went on; the second, the last one
\* allowed, failed too and its error was raised to the caller.
C25_Witness ==
  /\ loop.pc = "thrown"
  /\ loop.maxRetries = 2
  /\ Len(EventsOfType("attempt")) = 2
  /\ Len(EventsOfType("error")) = 2
  /\ LastEvent.type = "error"
  /\ LastEvent.attempt = 2

(***************************************************************************)
(* C26 generateWithAudit yields 'success' exactly when an attempt's audit  *)
(* score is at or above the threshold (default 80), and then stops: no     *)
(* event of any type follows a 'success' event, and no 'success' event is  *)
(* yielded for a score below the threshold.                                *)
(***************************************************************************)
C26_SuccessIffPassing ==
  \A i \in 1..Len(events) :
    /\ events[i].type = "audit_complete"
         => /\ i < Len(events)
            /\ (events[i].score >= AuditScoreThreshold)
                 <=> (events[i + 1].type = "success")
    /\ events[i].type = "success"
         => /\ i = Len(events)
            /\ loop.pc = "returned"
            /\ i > 1
            /\ events[i - 1].type = "audit_complete"
            /\ events[i - 1].score >= AuditScoreThreshold
            /\ events[i].score = events[i - 1].score

\* An attempt audited at 79 was retried and the next, audited at exactly
\* the threshold, ended the run with 'success'.
C26_Witness ==
  /\ loop.pc = "returned"
  /\ events /= <<>>
  /\ LastEvent.type = "success"
  /\ LastEvent.score = AuditScoreThreshold
  /\ \E i \in AuditedAt :
       /\ events[i].score = AuditScoreThreshold - 1
       /\ events[i + 1].type = "retry"

(***************************************************************************)
(* C27 The audit score derived from a report is always within 0..100:      *)
(* whether the report holds an explicit "score: N" token or the            *)
(* severity-count fallback is used, extractAuditScore returns a value      *)
(* between 0 and 100 inclusive, and so does the score compared against the *)
(* threshold in generateWithAudit.                                         *)
(* The explicit token is returned as parsed, without a clamp.              *)
(***************************************************************************)
C27_ScoreInRange ==
  /\ \A i \in AuditedAt : events[i].score \in 0..100
  /\ loop.auditResult.success => loop.auditResult.score \in 0..100

(***************************************************************************)
(* C28 When code extraction finds no match in the raw model output of an   *)
(* attempt, that attempt is aborted with an extraction failure: the        *)
(* auditor is not called for that attempt, no 'code_complete',             *)
(* 'audit_complete', 'success', 'retry' or 'failed' event is yielded for   *)
(* it, and the failure is surfaced as an 'error' event after which the     *)
(* loop may retry.                                                         *)
(***************************************************************************)
ExtractionFailsNow ==
  /\ loop.pc = "awaitChunk"
  /\ stream = <<>>
  /\ ExtractSolidityCode(loop.rawOutput) = NoCode
  /\ loop' /= loop

\* The events of the attempt that ended with the error event at place i.
AbortedAt(evs, i) ==
  LET heads == {j \in 1..i : evs[j].type = "attempt"}
  IN (Greatest(heads) + 1)..(i - 1)

AbortedAttemptsClean(evs, audited) ==
  \A i \in 1..Len(evs) :
    (/\ evs[i].type = "error"
     /\ evs[i].text = "Could not extract Solidity code from response")
      => /\ \A k \in AbortedAt(evs, i) : evs[k].type \in {"status", "code_chunk"}
         /\ \A k \in 1..Len(audited) : audited[k].attempt /= evs[i].attempt
         /\ i < Len(evs) => /\ evs[i + 1].type = "attempt"
                            /\ evs[i + 1].attempt = evs[i].attempt + 1

C28_ExtractionFailureAborts ==
  [][/\ ExtractionFailsNow
         => /\ auditCalls' = auditCalls
            /\ events' = events \o <<events'[Len(events')]>>
            /\ events'[Len(events')].type = "error"
            /\ events'[Len(events')].attempt = loop.attempt
            /\ loop'.pc = IF loop.attempt < loop.maxRetries
                            THEN "loopTop" ELSE "thrown"
      /\ AbortedAttemptsClean(events', auditCalls')]_vars

\* Nothing could be extracted from the first response; the attempt ended
\* with the error event and the second attempt reached the auditor.
C28_Witness ==
  /\ \E i \in 1..Len(events) :
       /\ events[i].type = "error"
       /\ events[i].attempt = 1
       /\ events[i].text = "Could not extract Solidity code from response"
  /\ Len(auditCalls) = 1
  /\ auditCalls[1].attempt = 2

(***************************************************************************)
(* C29 Payment gate challenge: for every request without a payment proof   *)
(* header, the x402 middleware responds with status 402 and a challenge    *)
(* carrying the configured amount and token, and the downstream handler    *)
(* (next) is not invoked.                                                  *)
(***************************************************************************)
C29_ChallengeWithoutProof ==
  \A r \in Exchanges :
    (gate[r].pc /= "idle" /\ gate[r].header.kind \in {"undefined", "empty"})
      => /\ gate[r].pc = "done"
         /\ gate[r].response.status = 402
         /\ gate[r].response.requiredAmount = X402Config.amount
         /\ gate[r].response.requiredToken = X402Config.token
         /\ gate[r].response.challenge.amount = X402Config.amount
         /\ gate[r].response.challenge.token = X402Config.token
         /\ gate[r].nextCalls = 0
         /\ gate[r].payment = NoPayment

\* A request without the header was challenged while another one, which
\* carried a proof, went on to the handler.
C29_Witness ==
  \E r, q \in Exchanges :
    /\ gate[r].pc = "done"
    /\ gate[r].header.kind = "undefined"
    /\ gate[r].response.status = 402
    /\ gate[q].nextCalls = 1

(***************************************************************************)
(* C30 Payment gate admission: the middleware invokes the downstream       *)
(* handler (next) only if the proof decoded, its signature verified, the   *)
(* verified amount equals the configured price exactly (a larger amount is *)
(* rejected too) and the verified token equals the configured token (as    *)
(* addresses, whatever the case of their hex digits); in that case the     *)
(* payer identity is attached to the request context before next runs,     *)
(* and in every other case next is never invoked.                          *)
(***************************************************************************)
C30_AdmissionOnlyWhenPaid ==
  \A r \in Exchanges :
    /\ gate[r].nextCalls <= 1
    /\ gate[r].nextCalls = 1
         => /\ gate[r].header.kind = "proof"
            /\ gate[r].header.signature.signer /= NULL
            /\ gate[r].header.signature.over = gate[r].header.paymentDetails
            /\ gate[r].header.paymentDetails.amount = X402Config.amount
            /\ ToLowerCase(gate[r].header.paymentDetails.token)
                 = ToLowerCase(X402Config.token)
            /\ gate[r].paymentAtNext.verified
            /\ gate[r].paymentAtNext.payer = gate[r].header.signature.signer
            /\ gate[r].paymentAtNext.amount = X402Config.amount
    /\ gate[r].pc \in {"awaitNext"} => gate[r].nextCalls = 1
    /\ (gate[r].pc = "done" /\ gate[r].response.status \in {400, 402})
         => gate[r].nextCalls = 0

\* A proof of the exact price was admitted with its payer attached, and a
\* signed proof of a larger amount was turned away.
C30_Witness ==
  \E r, q \in Exchanges :
    /\ gate[r].pc = "awaitNext"
    /\ gate[r].header.paymentDetails.token = "0xab"
    /\ gate[r].paymentAtNext.payer = "0xAB"
    /\ gate[q].pc = "done"
    /\ gate[q].header.kind = "proof"
    /\ gate[q].header.paymentDetails.amount = "1001"
    /\ gate[q].header.signature.signer = "0xAB"
    /\ gate[q].header.signature.over = gate[q].header.paymentDetails
    /\ gate[q].response.status = 402
    /\ gate[q].nextCalls = 0

(***************************************************************************)
(* C31 The fixed baseline gas estimates used by estimateGas are strictly   *)
(* ordered by intent type as deploy_contract > call_contract > swap >      *)
(* transfer, and the estimate is not read by validatePolicy.               *)
(*                                                                         *)
(* Estimates taken at one gas price compare as the baselines do.  As       *)
(* stated, the order is refuted by the estimates of call_contract and      *)
(* swap.                                                                   *)
(***************************************************************************)
Quoted(t) == quotes[t] /= NoQuote /\ ~quotes[t].failed
CostOf(t) == quotes[t].cost.whole * 1000000000 + quotes[t].cost.fraction
Above(t, u) ==
  (Quoted(t) /\ Quoted(u) /\ quotes[t].gasPrice = quotes[u].gasPrice)
    => CostOf(t) > CostOf(u)

C31_CallAboveSwap ==
  /\ Above("deploy_contract", "call_contract")
  /\ Above("call_contract", "swap")
  /\ Above("swap", "transfer")

\* As the code has it: deploy_contract > swap > call_contract > transfer;
\* taking an estimate changes nothing the policy engine reads, and a
\* validation leaves the estimates alone.
C31_BaselinesOrdered ==
  /\ [](/\ Above("deploy_contract", "swap")
        /\ Above("swap", "call_contract")
        /\ Above("call_contract", "transfer"))
  /\ [][/\ quotes' /= quotes => UNCHANGED facilitatorVars
        /\ \A c \in Calls : ValidatesIn(c) => quotes' = quotes]_vars

\* Every type was estimated at one gas price while an intent went through
\* validation and was dispatched.
C31_Witness ==
  /\ \A t \in IntentTypes : Quoted(t) /\ quotes[t].gasPrice = 5
  /\ \E c \in Calls : Dispatched(calls[c])

C33_RejectionKeepsNonce ==
  [][\A c \in Calls :
       (/\ BeforeValidation(calls[c])
        /\ calls'[c].pc = "failed"
        /\ calls'[c].error \in {"Invalid intent signature", "Policy violation"})
         => usedNonces' = usedNonces]_vars

\* An intent was rejected for the minute window alone and, the window
\* having moved on, its nonce was accepted and dispatched in a later call.
C33_Witness ==
  \E c, d \in Calls :
    /\ PolicyRejected(calls[c])
    /\ calls[c].violations = <<RateMinuteMsg>>
    /\ calls[c].intent.nonce = 1
    /\ Dispatched(calls[d])
    /\ calls[d].intent.nonce = 1

\* The violations of the rate and spend rules.
MeterMsgs == {RateMinuteMsg, RateHourMsg, RateDayMsg, SpendHourMsg, SpendDayMsg}

\* The quota snapshot of a user who has executed nothing.
FullCaps ==
  [hourly |-> MaxSpendPerHour, daily |-> MaxSpendPerDay,
   perMinute |-> MaxTxPerMinute, perHour |-> MaxTxPerHour,
   perDay |-> MaxTxPerDay]

\* The call was made without a userAddress.
Anonymous(frame) == frame.pc /= "idle" /\ frame.userAddress = NULL

(***************************************************************************)
(* C34 When userAddress is null or omitted, validatePolicy applies no rate *)
(* or spend rule, the execution is recorded in no ledger, and the returned *)
(* quota snapshot equals the full configured caps; any number of such      *)
(* calls with fresh nonces are dispatched.                                 *)
(***************************************************************************)
C34_AnonymousUnmetered ==
  [][\A c \in Calls :
       (calls'[c] /= calls[c] /\ Anonymous(calls'[c]))
         => /\ Range(calls'[c].violations) \cap MeterMsgs = {}
            /\ userTracking' = userTracking
            /\ (ValidatesIn(c) /\ NonceKey(calls'[c].intent.nonce) \notin usedNonces)
                 => calls'[c].pc = "awaitValidate"
            /\ calls'[c].pc = "done" => calls'[c].policyInfo = FullCaps]_vars

\* Two calls without userAddress were executed and returned the full caps
\* while the ledger of their signer had its minute window full.
C34_Witness ==
  /\ \A c \in Calls : Anonymous(calls[c]) /\ calls[c].pc = "done"
                       /\ calls[c].policyInfo = FullCaps
  /\ \E c, d \in Calls : calls[c].intent.nonce /= calls[d].intent.nonce
  /\ CountWithin(Transactions(userTracking, "0xAB"), now, MinuteMs) >= MaxTxPerMinute

(***************************************************************************)
(* C35 In every reachable state and for every user, each value reported by *)
(* getRemainingTx (perMinute, perHour, perDay) is greater than or equal to *)
(* 0, including under interleaved in-flight executeUserIntent calls of     *)
(* that user.                                                              *)
(***************************************************************************)
C35_RemainingTxNonNegative ==
  \A u \in {NULL, "0xAB"} :
    LET tx == GetRemainingTx(userTracking, u, now)
    IN  tx.perMinute >= 0 /\ tx.perHour >= 0 /\ tx.perDay >= 0

(***************************************************************************)
(* C36 With requireAudit true, no deploy_contract intent is dispatched     *)
(* unless it carries an auditScore at or above minAuditScore; in           *)
(* particular a deploy_contract intent with no auditScore attached is      *)
(* rejected by validatePolicy.                                             *)
(***************************************************************************)
C36_NoDeployWithoutAudit ==
  \A c \in Calls :
    (/\ RequireAudit
     /\ calls[c].intent.type = "deploy_contract"
     /\ calls[c].pc /= "idle")
      => /\ Dispatched(calls[c])
              => (/\ calls[c].intent.data.auditScore /= Undefined
                  /\ calls[c].intent.data.auditScore >= MinAuditScore)
         /\ (calls[c].intent.data.auditScore = Undefined /\ calls[c].isValid)
              => PolicyRejected(calls[c])

\* The records recordTransaction has written since the ledger held
\* CappedHistory: one for every call whose receipt has arrived.
Recorded ==
  Cardinality({c \in Calls : /\ calls[c].pc \in {"awaitSpend", "done"}
                             /\ calls[c].userAddress /= NULL})

\* Everything ever recorded for the user, the records that slice(-1000) has
\* dropped included.
FullHistory ==
  LET txs == Transactions(userTracking, "0xAB")
      dropped == Len(CappedHistory) + Recorded - Len(txs)
  IN  CappedHistory \o SubSeq(txs, Len(CappedHistory) - dropped + 1, Len(txs))

\* validatePolicy accepts the request over the ledger.
Accepts(req, tracking) ==
  ValidatePolicy(req.intent, req.userAddress, tracking, usedNonces, now) = <<>>

(***************************************************************************)
(* C37 Truncating a user's history to the last 1000 records never changes  *)
(* a policy decision: for every reachable ledger under the configured      *)
(* policy (maxTxPerDay = 100 < 1000), validatePolicy's accept/reject        *)
(* outcome on the retained history equals its outcome on the full          *)
(* untruncated history of that user.                                       *)
(***************************************************************************)
C37_TruncationKeepsDecisions ==
  LET full == [userTracking EXCEPT ![UserKey].transactions = FullHistory]
  IN  \A req \in RateRequests : Accepts(req, userTracking) <=> Accepts(req, full)

\* Records have been dropped, and the minute window, full in the retained
\* and in the whole history alike, rejects the next request.
C37_Witness ==
  /\ Len(FullHistory) > HistoryCap
  /\ Len(Transactions(userTracking, "0xAB")) = HistoryCap
  /\ \E req \in RateRequests :
       RateMinuteMsg \in Range(ValidatePolicy(req.intent, req.userAddress,
                                             userTracking, usedNonces, now))

\* The kind of an event: its type, the two 'status' events told apart by
\* their message.
Kind(ev) == IF ev.type = "status" THEN ev.text ELSE ev.type

\* The number of the attempt event i belongs to.
AttemptNo(evs, i) ==
  evs[Greatest({j \in 1..i : evs[j].type = "attempt"})].attempt

\* What may come next inside an attempt that nothing cuts short.
Successors(kind) ==
  CASE kind = "attempt" -> {"Generating contract..."}
    [] kind = "Generating contract..." -> {"code_chunk", "code_complete"}
    [] kind = "code_chunk" -> {"code_chunk", "code_complete"}
    [] kind = "code_complete" -> {"Auditing contract..."}
    [] kind = "Auditing contract..." -> {"audit_complete"}
    [] kind = "audit_complete" -> {"success", "retry", "failed"}
    [] kind = "retry" -> {"attempt"}
    [] OTHER -> {}

\* The same, with the 'error' event of the catch clause: it comes while the
\* stream is read, when no code is extracted, or when the audit call fails,
\* and the next attempt, if there is one, comes after it.
SuccessorsOrError(kind) ==
  Successors(kind)
    \cup (IF kind \in {"Generating contract...", "code_chunk",
                       "Auditing contract..."} THEN {"error"} ELSE {})
    \cup (IF kind = "error" THEN {"attempt"} ELSE {})

\* The numbering of the attempts and the conditions of 'retry' and 'failed'.
Numbered(evs) ==
  /\ evs /= <<>> => (evs[1].type = "attempt" /\ evs[1].attempt = 1)
  /\ \A i \in 2..Len(evs) :
       evs[i].type = "attempt" => evs[i].attempt = AttemptNo(evs, i - 1) + 1
  /\ \A i \in 1..Len(evs) :
       /\ evs[i].type \in {"retry", "error"} => evs[i].attempt = AttemptNo(evs, i)
       /\ evs[i].type = "retry" => AttemptNo(evs, i) < loop.maxRetries
       /\ evs[i].type = "failed" => AttemptNo(evs, i) = loop.maxRetries

\* A 'retry' is the last event yielded so far.
RetryPending == events /= <<>> /\ LastEvent.type = "retry"

(***************************************************************************)
(* C38 Within each attempt of generateWithAudit the events are yielded in  *)
(* the fixed order 'attempt', 'status', zero or more 'code_chunk',         *)
(* 'code_complete', 'status', 'audit_complete', then exactly one of        *)
(* 'success', 'retry' or 'failed'; 'retry' is yielded only when attempt <  *)
(* maxRetries and is always followed by an 'attempt' event numbered        *)
(* attempt+1; 'failed' is yielded only when attempt = maxRetries.          *)
(*                                                                         *)
(* As stated: every event follows its predecessor in that order.  It is    *)
(* refuted by an attempt that throws, whose events stop short with an      *)
(* 'error' event.                                                          *)
(***************************************************************************)
C38_FixedOrder ==
  /\ Numbered(events)
  /\ \A i \in 1..(Len(events) - 1) :
       Kind(events[i + 1]) \in Successors(Kind(events[i]))

\* As the code has it: an attempt follows that order unless it throws; then
\* its events stop after the first 'status', after a 'code_chunk' or after
\* the second 'status', and one 'error' event numbered attempt follows,
\* after which comes 'attempt' numbered attempt+1 or nothing.  A consumer
\* that keeps pulling gets the 'attempt' event after every 'retry'.
C38_OrderUnlessThrown ==
  /\ [](/\ Numbered(events)
         /\ \A i \in 1..(Len(events) - 1) :
              Kind(events[i + 1]) \in SuccessorsOrError(Kind(events[i])))
  /\ (RetryPending ~> ~RetryPending)

\* A run of three attempts: one retried, one thrown, the last one failed.
C38_Witness ==
  /\ loop.pc = "returned"
  /\ loop.maxRetries = 3
  /\ Len(EventsOfType("retry")) = 1
  /\ Len(EventsOfType("error")) = 1
  /\ Len(EventsOfType("code_chunk")) >= 1
  /\ LastEvent.type = "failed"

\* The calls before call i that decide what a get of call i's key finds:
\* the sets and deletes of that key, and every clear.
Deciding(i) ==
  {j \in 1..(i - 1) : \/ got[j].op = "clear"
                       \/ (got[j].op \in {"set", "delete"} /\ got[j].key = got[i].key)}

\* What the get of call i is to return.
Due(i) ==
  IF Deciding(i) = {} THEN NULL
  ELSE LET last == got[Greatest(Deciding(i))]
       IN  IF last.op = "set" /\ got[i].at <= last.at + last.ttl
             THEN last.value ELSE NULL

(***************************************************************************)
(* C39 CacheService.get never returns an expired value: for every key, get *)
(* returns the value stored by the latest set only while the current time  *)
(* is not past that entry's expiresAt, and otherwise returns null and      *)
(* removes the entry; after delete(key) or clear(), get(key) returns null  *)
(* until the next set.                                                     *)
(***************************************************************************)
C39_NeverExpired ==
  /\ [](\A i \in 1..Len(got) : got[i].op = "get" => got[i].value = Due(i))
  /\ [][\A key \in CacheKeys :
          (/\ Len(got') = Len(got) + 1
           /\ got'[Len(got')].op = "get"
           /\ got'[Len(got')].key = key
           /\ got'[Len(got')].value = NULL)
            => ~Has(cache', key)]_vars

\* A key was set twice; a get at the very instant the entry expires returned
\* the second value.
C39_Witness ==
  /\ Len(got) = 3
  /\ got[1].op = "set" /\ got[2].op = "set" /\ got[3].op = "get"
  /\ got[1].key = got[3].key /\ got[2].key = got[3].key
  /\ got[1].value /= got[2].value
  /\ got[3].at = got[2].at + got[2].ttl
  /\ got[3].value = got[2].value

====
